---- MODULE Spec2Model ----
(***************************************************************************)
(* The persistent storage of the browser (storage.ts): the profile index,  *)
(* the active profile pointer, the bookmarks, history, settings, session   *)
(* and downloads documents of every profile directory, and the encrypted   *)
(* account documents (credentials and AuthState) of the data root.         *)
(*                                                                         *)
(* A directory is a function from the names of the documents that exist in *)
(* it to their parsed JSON content; a missing file is a name outside the   *)
(* function's domain.  Strings the program builds (profile ids) are kept   *)
(* as the tuple of their parts; download ids are numbered.                 *)
(***************************************************************************)
EXTENDS Integers, Sequences, FiniteSets, TLC

(***************************************************************************)
(* Bounds of the model and input alphabets.                                *)
(***************************************************************************)
HistPrefill == 998
DlPrefill == 98
MaxHistAdds == 4
MaxLogged == 1
MaxProfiles == 3

Urls == {"u1", "u2", "u3"}
Titles == {"t1", "t2"}
\* values Date.now() may return: the wall clock is an input of the program
Times == {HistPrefill + 1, HistPrefill + 2}
\* values Math.random().toString(36).slice(2, 6) may return
Suffixes == {"aaaa", "bbbb"}
Names == {"Work"}
Avatars == {"person"}
\* e-mail addresses as <<local part, domain>>: the two differ in case only
Emails == {<<"a", "b.com">>, <<"A", "b.com">>}
\* passwords as the bytes of their UTF-8 encoding; 0 is the NUL character
Passwords == {<<1>>, <<1, 0>>, <<2>>}
\* values crypto.randomBytes(n).toString("hex") may return: the key of the
\* installation, an initialisation vector, a salt, a session token
Keys == {"k1"}
Ivs == {"i1", "i2"}
Salts == {"s1"}
Tokens == {<<"hex", 1>>, <<"hex", 2>>}

(***************************************************************************)
(* Program constants.                                                      *)
(***************************************************************************)
HISTORY_CAP == 1000
DOWNLOADS_CAP == 100

DefaultId == <<"default", 0, "">>
\* `profile-${Date.now()}-${Math.random().toString(36).slice(2, 6)}`
GenId(t, r) == <<"profile", t, r>>
GenIds == {GenId(t, r) : t \in Times, r \in Suffixes}
ProfileIds == {DefaultId} \cup GenIds

VARIABLES
    globalFiles,      \* files outside the profile directories (browser-data/*.json,
                      \* browser-data/*.enc, userData/.browser-key): name -> content
    fs,               \* browser-data/profiles/<id>/: id -> (document name -> content)
    activeProfileId,  \* the module-level `let activeProfileId`
    last,             \* the call that was made last: [op, args]
    ret,              \* the value that call returned
    inflight,         \* per process, the call that has read its document and
                      \* not yet written it: [op, args, read]
    activeDownloads,  \* main.ts `activeDownloads`: the keys in insertion order,
                      \* each with the Electron item it maps to
    items,            \* the Electron download items of the run, each with the
                      \* `id` and `dlItem` its will-download closure holds
    mainWindow,       \* main.ts `let mainWindow`: the window, null once closed
    tabs,             \* renderer.ts `tabs`: the keys in insertion order, each
                      \* with the Tab object it maps to
    tabObjs,          \* the Tab objects the renderer has made
    webviews,         \* the <webview> elements the renderer has made
    activeTabId,      \* renderer.ts `let activeTabId`
    urlBar,           \* urlBar.value
    bookmarksBar,     \* the items of the bookmarks bar: the url of each
    pending,          \* the renderer's suspended async functions whose awaited
                      \* IPC reply has come, in the order of the replies
    ipc               \* what the renderer has sent and the main process has
                      \* not handled yet, in the order of sending

mainVars == <<activeDownloads, items, mainWindow>>

rendererVars ==
    <<tabs, tabObjs, webviews, activeTabId, urlBar, bookmarksBar, pending, ipc>>

vars == <<globalFiles, fs, activeProfileId, last, ret, inflight, mainVars, rendererVars>>

\* main.ts and renderer.ts right after start-up, before any event
InitMain ==
    /\ activeDownloads = <<>>
    /\ items = <<>>
    /\ mainWindow = <<"BrowserWindow">>

InitRenderer ==
    /\ tabs = <<>>
    /\ tabObjs = <<>>
    /\ webviews = <<>>
    /\ activeTabId = <<"null">>
    /\ urlBar = ""
    /\ bookmarksBar = <<>>
    /\ pending = <<>>
    /\ ipc = <<>>

\* the processes that run the program over one data root
Procs == {"p1", "p2"}

\* no call under way; of a call under way: the list it read, whether it has
\* opened its file for writing, the list it writes and the list it found in
\* the file when it opened it
NoCall == [op |-> "none", args |-> <<>>, read |-> <<>>,
           open |-> FALSE, data |-> <<>>, found |-> <<>>]

NoCalls == [p \in Procs |-> NoCall]

(***************************************************************************)
(* File system helpers.                                                    *)
(***************************************************************************)
NoFiles == [n \in {} |-> <<>>]

Min(a, b) == IF a < b THEN a ELSE b

\* the text JSON.stringify(v) returns, and JSON.parse of a text: a text that
\* parses is the tuple of the mark "json" and the value it parses to
Stringify(v) == <<"json", v>>

IsJSON(text) == Len(text) >= 2 /\ text[1] = "json"

Parse(text) == text[2]

Null == <<"null">>

\* the texts of JSON values that are no list: the third component names the
\* type of the value, which a list (and a document the store wrote) has not
JsonNull == <<"json", Null, "null">>

JsonObject == <<"json", [n \in {} |-> <<>>], "object">>

\* a text that JSON.parse rejects
Garbage == <<"{">>

\* readJSON: the parsed document, or the fallback when the file is missing
\* or JSON.parse throws
ReadJSON(dir, name, fallback) ==
    IF name \in DOMAIN dir /\ IsJSON(dir[name]) THEN Parse(dir[name]) ELSE fallback

\* the text of a file that was opened for writing and is not written yet;
\* JSON.parse rejects it
EmptyText == <<>>

\* the number of characters of an entry in the text of JSON.stringify(list,
\* null, 2), two spaces of indentation included, for the bookmarks and the
\* downloads that addBookmark and saveDownload are called with step by step:
\* the bookmarks are equally long, the downloads differ by their state
EntryLen(e) ==
    IF "state" \in DOMAIN e
    THEN IF e.state = "completed" THEN 182 ELSE 184
    ELSE 62

RECURSIVE EntriesLen(_)
EntriesLen(list) ==
    IF list = <<>> THEN 0 ELSE EntryLen(Head(list)) + EntriesLen(Tail(list))

\* "[]", or "[\n" entry ",\n" entry ... "\n]"
ListLen(list) ==
    IF list = <<>> THEN 2 ELSE 4 + EntriesLen(list) + 2 * (Len(list) - 1)

\* the text of a file that held more than len characters when content, of
\* fewer characters, was written from its first character on: the content,
\* then what the file held behind it.  JSON.parse rejects it
Torn(content, len) == <<"torn", content, len>>

\* the number of characters of the text of a document
TextLen(text) ==
    IF text = EmptyText THEN 0
    ELSE IF IsJSON(text) THEN ListLen(Parse(text))
    ELSE text[3]

\* openSync(filePath, "w"), the first step of writeFileSync: the file is
\* created, or truncated to no character
Truncate(dir, name) ==
    [n \in DOMAIN dir \cup {name} |-> IF n = name THEN EmptyText ELSE dir[n]]

\* the second step of writeFileSync: the content is written from the first
\* character of the file on; what the file holds behind it stays
Written(dir, name, content) ==
    [n \in DOMAIN dir \cup {name} |->
        IF n # name THEN dir[n]
        ELSE IF name \notin DOMAIN dir \/ dir[name] = EmptyText THEN content
        ELSE IF TextLen(dir[name]) <= TextLen(content) THEN content
        ELSE Torn(content, TextLen(dir[name]))]

\* writeFileSync: the file is truncated and the content written.  Nothing
\* else of the same process runs in between, so for it the whole file is
\* replaced
WriteFile(dir, name, content) == Written(Truncate(dir, name), name, content)

\* writeJSON: the whole file is replaced by the text of the data
WriteJSON(dir, name, data) == WriteFile(dir, name, Stringify(data))

\* ensureDir on a profile directory: mkdir when it does not exist
EnsureDir(f, id) ==
    IF id \in DOMAIN f THEN f
    ELSE [d \in DOMAIN f \cup {id} |-> IF d = id THEN NoFiles ELSE f[d]]

\* rmSync(dir, {recursive, force}) when the directory exists
RemoveDir(f, id) == [d \in DOMAIN f \ {id} |-> f[d]]

\* profileDir(): every caller passes no profileId, so id = activeProfileId
ProfileDirIgnoresActive == DefaultId

ProfileDir == activeProfileId

\* readJSON(profilePath(name), fallback)
ReadProfileDoc(name, fallback) ==
    IF ProfileDir \in DOMAIN fs
    THEN ReadJSON(fs[ProfileDir], name, fallback)
    ELSE fallback

\* the file system after profilePath(name) alone (the directory is ensured)
Touched == EnsureDir(fs, ProfileDir)

\* writeJSON(profilePath(name), data)
WriteProfileDoc(name, data) ==
    [Touched EXCEPT ![ProfileDir] = WriteJSON(Touched[ProfileDir], name, data)]

\* the record of a call; note is what the call found (used by deleteProfile)
\* or that it ended by an error nothing caught
CallNote(op, args, note) == [op |-> op, args |-> args, note |-> note]

Threw == <<"threw">>

Call(op, args) == CallNote(op, args, <<>>)

(***************************************************************************)
(* Bookmarks.                                                              *)
(***************************************************************************)
GetBookmarks == ReadProfileDoc("bookmarks", <<>>)

\* getBookmarks() returned a value without the methods of a list: the
\* document parses, to null or to an object
BookmarksNoList ==
    /\ ProfileDir \in DOMAIN fs
    /\ "bookmarks" \in DOMAIN fs[ProfileDir]
    /\ IsJSON(fs[ProfileDir]["bookmarks"])
    /\ Len(fs[ProfileDir]["bookmarks"]) = 3

\* bookmarks.some / .filter on such a value: the TypeError leaves the call
TypeError == [threw |-> TRUE, error |-> "TypeError"]

BookmarksThrow(op, args) ==
    /\ fs' = Touched
    /\ ret' = TypeError
    /\ last' = CallNote(op, args, Threw)
    /\ UNCHANGED <<globalFiles, activeProfileId, inflight, mainVars, rendererVars>>

HasUrl(list, url) == \E i \in 1..Len(list) : list[i].url = url

AddBookmarkNoCheck(url, title, t) ==
    LET bookmarks == Append(GetBookmarks, [url |-> url, title |-> title, addedAt |-> t])
    IN  /\ fs' = WriteProfileDoc("bookmarks", bookmarks)
        /\ ret' = bookmarks
        /\ last' = Call("addBookmark", <<url, title>>)
        /\ UNCHANGED <<globalFiles, activeProfileId, inflight, mainVars, rendererVars>>

AddBookmarkAtFront(url, title, t) ==
    LET bookmarks == GetBookmarks
        pushed == <<[url |-> url, title |-> title, addedAt |-> t]>> \o bookmarks
    IN  /\ IF ~HasUrl(bookmarks, url)
           THEN fs' = WriteProfileDoc("bookmarks", pushed) /\ ret' = pushed
           ELSE fs' = Touched /\ ret' = bookmarks
        /\ last' = Call("addBookmark", <<url, title>>)
        /\ UNCHANGED <<globalFiles, activeProfileId, inflight, mainVars, rendererVars>>

AddBookmark(url, title, t) ==
    LET bookmarks == GetBookmarks
        pushed == Append(bookmarks, [url |-> url, title |-> title, addedAt |-> t])
    IN  IF BookmarksNoList THEN BookmarksThrow("addBookmark", <<url, title>>)
        ELSE /\ IF ~HasUrl(bookmarks, url)
                THEN fs' = WriteProfileDoc("bookmarks", pushed) /\ ret' = pushed
                ELSE fs' = Touched /\ ret' = bookmarks
             /\ last' = Call("addBookmark", <<url, title>>)
             /\ UNCHANGED <<globalFiles, activeProfileId, inflight, mainVars, rendererVars>>

RemoveBookmark(url) ==
    LET bookmarks == SelectSeq(GetBookmarks, LAMBDA b : b.url # url)
    IN  IF BookmarksNoList THEN BookmarksThrow("removeBookmark", <<url>>)
        ELSE /\ fs' = WriteProfileDoc("bookmarks", bookmarks)
             /\ ret' = bookmarks
             /\ last' = Call("removeBookmark", <<url>>)
             /\ UNCHANGED <<globalFiles, activeProfileId, inflight, mainVars, rendererVars>>

IsBookmarked(url) ==
    IF BookmarksNoList THEN BookmarksThrow("isBookmarked", <<url>>)
    ELSE /\ fs' = Touched
         /\ ret' = HasUrl(GetBookmarks, url)
         /\ last' = Call("isBookmarked", <<url>>)
         /\ UNCHANGED <<globalFiles, activeProfileId, inflight, mainVars, rendererVars>>

ReadBookmarks ==
    /\ fs' = Touched
    /\ ret' = GetBookmarks
    /\ last' = Call("getBookmarks", <<>>)
    /\ UNCHANGED <<globalFiles, activeProfileId, inflight, mainVars, rendererVars>>

(***************************************************************************)
(* History.                                                                *)
(***************************************************************************)
GetHistory == ReadProfileDoc("history", <<>>)

\* history.unshift(entry); if (history.length > 1000) history.length = 1000
UnshiftHistoryNoCap(history, entry) == <<entry>> \o history

UnshiftHistoryDedup(history, entry) ==
    LET kept == SelectSeq(history, LAMBDA h : h.url # entry.url)
        grown == <<entry>> \o kept
    IN  IF Len(grown) > HISTORY_CAP THEN SubSeq(grown, 1, HISTORY_CAP) ELSE grown

UnshiftHistory(history, entry) ==
    LET grown == <<entry>> \o history
    IN  IF Len(grown) > HISTORY_CAP THEN SubSeq(grown, 1, HISTORY_CAP) ELSE grown

AddHistoryEntry(url, title, t) ==
    LET history == UnshiftHistory(GetHistory, [url |-> url, title |-> title, visitedAt |-> t])
    IN  /\ fs' = WriteProfileDoc("history", history)
        /\ ret' = <<>>
        /\ last' = Call("addHistoryEntry", <<url, title, t>>)
        /\ UNCHANGED <<globalFiles, activeProfileId, inflight, mainVars, rendererVars>>

ClearHistory ==
    /\ fs' = WriteProfileDoc("history", <<>>)
    /\ ret' = <<>>
    /\ last' = Call("clearHistory", <<>>)
    /\ UNCHANGED <<globalFiles, activeProfileId, inflight, mainVars, rendererVars>>

ReadHistory ==
    /\ fs' = Touched
    /\ ret' = GetHistory
    /\ last' = Call("getHistory", <<>>)
    /\ UNCHANGED <<globalFiles, activeProfileId, inflight, mainVars, rendererVars>>

\* String.prototype.toLowerCase on a string given as the tuple of its
\* characters: the upper-case letters are mapped, every other character kept
Lower(c) ==
    CASE c = "A" -> "a"
      [] c = "E" -> "e"
      [] c = "X" -> "x"
      [] OTHER -> c

ToLowerCaseKeeps(str) == str

ToLowerCase(str) == [i \in 1..Len(str) |-> Lower(str[i])]

\* String.prototype.includes: q occurs in str at some position
Includes(str, q) ==
    \E i \in 0..(Len(str) - Len(q)) : SubSeq(str, i + 1, i + Len(q)) = q

SearchHistory(query) ==
    LET q == ToLowerCase(query)
    IN  /\ fs' = Touched
        /\ ret' = SelectSeq(GetHistory,
                       LAMBDA h : \/ Includes(ToLowerCase(h.url), q)
                                  \/ Includes(ToLowerCase(h.title), q))
        /\ last' = Call("searchHistory", <<query>>)
        /\ UNCHANGED <<globalFiles, activeProfileId, inflight, mainVars, rendererVars>>

(***************************************************************************)
(* Settings.                                                               *)
(***************************************************************************)
defaultSettings ==
    [searchEngine |-> "duckduckgo", adBlockEnabled |-> TRUE, restoreSession |-> TRUE]

\* { ...a, ...b }
Spread(a, b) ==
    [k \in DOMAIN a \cup DOMAIN b |-> IF k \in DOMAIN b THEN b[k] ELSE a[k]]

GetSettingsDefaultsWin == Spread(ReadProfileDoc("settings", NoFiles), defaultSettings)

GetSettings == Spread(defaultSettings, ReadProfileDoc("settings", NoFiles))

UpdateSettingsFromDefaults(partial) ==
    LET settings == Spread(defaultSettings, partial)
    IN  /\ fs' = WriteProfileDoc("settings", settings)
        /\ ret' = settings
        /\ last' = Call("updateSettings", <<partial>>)
        /\ UNCHANGED <<globalFiles, activeProfileId, inflight, mainVars, rendererVars>>

UpdateSettings(partial) ==
    LET settings == Spread(GetSettings, partial)
    IN  /\ fs' = WriteProfileDoc("settings", settings)
        /\ ret' = settings
        /\ last' = Call("updateSettings", <<partial>>)
        /\ UNCHANGED <<globalFiles, activeProfileId, inflight, mainVars, rendererVars>>

ReadSettings ==
    /\ fs' = Touched
    /\ ret' = GetSettings
    /\ last' = Call("getSettings", <<>>)
    /\ UNCHANGED <<globalFiles, activeProfileId, inflight, mainVars, rendererVars>>

(***************************************************************************)
(* Session.                                                                *)
(***************************************************************************)
GetSession == ReadProfileDoc("session", <<>>)

SaveSessionAppends(sessionTabs) ==
    /\ fs' = WriteProfileDoc("session", GetSession \o sessionTabs)
    /\ ret' = <<>>
    /\ last' = Call("saveSession", <<sessionTabs>>)
    /\ UNCHANGED <<globalFiles, activeProfileId, inflight, mainVars, rendererVars>>

SaveSession(sessionTabs) ==
    /\ fs' = WriteProfileDoc("session", sessionTabs)
    /\ ret' = <<>>
    /\ last' = Call("saveSession", <<sessionTabs>>)
    /\ UNCHANGED <<globalFiles, activeProfileId, inflight, mainVars, rendererVars>>

ReadSession ==
    /\ fs' = Touched
    /\ ret' = GetSession
    /\ last' = Call("getSession", <<>>)
    /\ UNCHANGED <<globalFiles, activeProfileId, inflight, mainVars, rendererVars>>

(***************************************************************************)
(* Downloads.                                                              *)
(***************************************************************************)
GetDownloads == ReadProfileDoc("downloads", <<>>)

\* downloads.findIndex((d) => d.id === item.id): the first match, 0 for -1
FindIndex(downloads, id) ==
    IF \E i \in 1..Len(downloads) : downloads[i].id = id
    THEN CHOOSE i \in 1..Len(downloads) :
            /\ downloads[i].id = id
            /\ \A j \in 1..(i - 1) : downloads[j].id # id
    ELSE 0

UpsertDownloadAlwaysUnshift(downloads, item) ==
    LET put == <<item>> \o downloads
    IN  IF Len(put) > DOWNLOADS_CAP THEN SubSeq(put, 1, DOWNLOADS_CAP) ELSE put

UpsertDownloadDropsHead(downloads, item) ==
    LET idx == FindIndex(downloads, item.id)
        put == IF idx > 0 THEN [downloads EXCEPT ![idx] = item]
               ELSE <<item>> \o downloads
    IN  IF Len(put) > DOWNLOADS_CAP THEN SubSeq(put, 2, Len(put)) ELSE put

UpsertDownload(downloads, item) ==
    LET idx == FindIndex(downloads, item.id)
        put == IF idx > 0 THEN [downloads EXCEPT ![idx] = item]
               ELSE <<item>> \o downloads
    IN  IF Len(put) > DOWNLOADS_CAP THEN SubSeq(put, 1, DOWNLOADS_CAP) ELSE put

SaveDownload(item) ==
    /\ fs' = WriteProfileDoc("downloads", UpsertDownload(GetDownloads, item))
    /\ ret' = <<>>
    /\ last' = Call("saveDownload", <<item>>)
    /\ UNCHANGED <<globalFiles, activeProfileId, inflight, mainVars, rendererVars>>

ClearDownloads ==
    /\ fs' = WriteProfileDoc("downloads", <<>>)
    /\ ret' = <<>>
    /\ last' = Call("clearDownloads", <<>>)
    /\ UNCHANGED <<globalFiles, activeProfileId, inflight, mainVars, rendererVars>>

ReadDownloads ==
    /\ fs' = Touched
    /\ ret' = GetDownloads
    /\ last' = Call("getDownloads", <<>>)
    /\ UNCHANGED <<globalFiles, activeProfileId, inflight, mainVars, rendererVars>>

(***************************************************************************)
(* addBookmark and saveDownload step by step: the call reads its document, *)
(* computes, and writes the document back with writeFileSync, which opens  *)
(* the file (it is truncated) and then writes the text; no temporary file  *)
(* is renamed and no lock is taken.  Within a process the exported         *)
(* functions are synchronous, so a process begins a call only when its     *)
(* last one has returned; the processes take their steps in any order, so  *)
(* one process can read, truncate or write the file between any two steps  *)
(* of the other.                                                           *)
(***************************************************************************)
DocOf(op) == IF op = "addBookmark" THEN "bookmarks" ELSE "downloads"

OnDisk(op) == ReadProfileDoc(DocOf(op), <<>>)

BasisEmpty(p) == <<>>

\* the list the call works on: the one its getBookmarks() / getDownloads() returned
Basis(p) == inflight[p].read

\* the list after bookmarks.push(...), or after the upsert of the item
Updated(call, list, t) ==
    IF call.op = "addBookmark"
    THEN Append(list, [url |-> call.args[1], title |-> call.args[2], addedAt |-> t])
    ELSE UpsertDownload(list, call.args[1])

\* the first statement of the call: the document is read
BeginCall(p, call) ==
    /\ inflight[p].op = "none"
    /\ inflight' = [inflight EXCEPT ![p] =
                        [NoCall EXCEPT !.op = call.op, !.args = call.args,
                                       !.read = OnDisk(call.op)]]
    /\ fs' = Touched
    /\ UNCHANGED <<globalFiles, activeProfileId, last, ret, mainVars, rendererVars>>

\* addBookmark returns at once for a url the list has
Skips(p) ==
    inflight[p].op = "addBookmark" /\ HasUrl(Basis(p), inflight[p].args[1])

\* the list is changed (Date.now() is t) and writeJSON opens the file, which
\* truncates it
OpenCall(p, t) ==
    LET call == inflight[p]
    IN  /\ call.op # "none"
        /\ ~call.open
        /\ ~Skips(p)
        /\ fs' = [Touched EXCEPT ![ProfileDir] =
                      Truncate(Touched[ProfileDir], DocOf(call.op))]
        /\ inflight' = [inflight EXCEPT ![p] =
                            [call EXCEPT !.open = TRUE,
                                         !.data = Updated(call, Basis(p), t),
                                         !.found = OnDisk(call.op)]]
        /\ UNCHANGED <<globalFiles, activeProfileId, last, ret, mainVars, rendererVars>>

\* the rest of the call: the text of the list is written to the open file
\* and the call returns, or it returns the list it read when it skips; the
\* note keeps who called, what the call had read and what it found in the
\* file when it opened it
FinishCall(p) ==
    LET call == inflight[p]
    IN  /\ call.op # "none"
        /\ IF call.open
           THEN /\ fs' = [fs EXCEPT ![ProfileDir] =
                             Written(fs[ProfileDir], DocOf(call.op), Stringify(call.data))]
                /\ ret' = IF call.op = "addBookmark" THEN call.data ELSE <<>>
                /\ last' = CallNote(call.op, call.args,
                                    [by |-> p, read |-> call.read, found |-> call.found])
           ELSE /\ Skips(p)
                /\ fs' = fs
                /\ ret' = Basis(p)
                /\ last' = CallNote(call.op, call.args,
                                    [by |-> p, read |-> call.read,
                                     found |-> OnDisk(call.op)])
        /\ inflight' = [inflight EXCEPT ![p] = NoCall]
        /\ UNCHANGED <<globalFiles, activeProfileId, mainVars, rendererVars>>

(***************************************************************************)
(* Profiles.                                                               *)
(***************************************************************************)
DefProfile(t) ==
    [id |-> DefaultId, name |-> "Default", avatar |-> "person",
     createdAt |-> t, isDefault |-> TRUE]

StoredProfiles(g) == ReadJSON(g, "profiles", <<>>)

\* getProfiles(): what it returns, and the global files it leaves
GetProfilesList(g, t) ==
    IF Len(StoredProfiles(g)) = 0 THEN <<DefProfile(t)>> ELSE StoredProfiles(g)

GetProfilesFiles(g, t) ==
    IF Len(StoredProfiles(g)) = 0
    THEN WriteJSON(g, "profiles", <<DefProfile(t)>>)
    ELSE g

GetProfiles(t) ==
    /\ globalFiles' = GetProfilesFiles(globalFiles, t)
    /\ ret' = GetProfilesList(globalFiles, t)
    /\ last' = Call("getProfiles", <<>>)
    /\ UNCHANGED <<fs, activeProfileId, inflight, mainVars, rendererVars>>

\* t0: Date.now() of getProfiles, t1: of the id, r: the random suffix, t2: of createdAt
CreateProfile(name, avatar, t0, t1, r, t2) ==
    LET profile == [id |-> GenId(t1, r), name |-> name, avatar |-> avatar,
                    createdAt |-> t2, isDefault |-> FALSE]
        profiles == Append(GetProfilesList(globalFiles, t0), profile)
    IN  /\ Len(profiles) <= MaxProfiles
        /\ globalFiles' = WriteJSON(GetProfilesFiles(globalFiles, t0), "profiles", profiles)
        /\ ret' = profile
        /\ last' = Call("createProfile", <<name, avatar>>)
        /\ UNCHANGED <<fs, activeProfileId, inflight, mainVars, rendererVars>>

\* what deleteProfile(id) finds: id listed, its directory there, id active
DeleteNote(id) ==
    [listed |-> \E i \in 1..Len(ReadJSON(globalFiles, "profiles", <<>>)) :
                    ReadJSON(globalFiles, "profiles", <<>>)[i].id = id,
     hadDir |-> id \in DOMAIN fs,
     wasActive |-> activeProfileId = id]

DeleteProfileKeepsActive(id, t0, t3) ==
    IF id = DefaultId
    THEN /\ globalFiles' = GetProfilesFiles(globalFiles, t0)
         /\ ret' = GetProfilesList(globalFiles, t0)
         /\ last' = CallNote("deleteProfile", <<id>>, DeleteNote(id))
         /\ UNCHANGED <<fs, activeProfileId, inflight, mainVars, rendererVars>>
    ELSE LET profiles == SelectSeq(GetProfilesList(globalFiles, t0), LAMBDA p : p.id # id)
             written == WriteJSON(GetProfilesFiles(globalFiles, t0), "profiles", profiles)
         IN  /\ globalFiles' = GetProfilesFiles(written, t3)
             /\ fs' = RemoveDir(fs, id)
             /\ activeProfileId' = activeProfileId
             /\ ret' = GetProfilesList(written, t3)
             /\ last' = CallNote("deleteProfile", <<id>>, DeleteNote(id))
             /\ UNCHANGED <<inflight, mainVars, rendererVars>>

DeleteProfileNoGuard(id, t0, t3) ==
    LET profiles == SelectSeq(GetProfilesList(globalFiles, t0), LAMBDA p : p.id # id)
        written == WriteJSON(GetProfilesFiles(globalFiles, t0), "profiles", profiles)
    IN  /\ globalFiles' = GetProfilesFiles(written, t3)
        /\ fs' = RemoveDir(fs, id)
        /\ activeProfileId' = IF activeProfileId = id THEN DefaultId ELSE activeProfileId
        /\ ret' = GetProfilesList(written, t3)
        /\ last' = CallNote("deleteProfile", <<id>>, DeleteNote(id))
        /\ UNCHANGED <<inflight, mainVars, rendererVars>>

\* t0, t3: Date.now() of the first and of the last getProfiles
DeleteProfile(id, t0, t3) ==
    IF id = DefaultId
    THEN /\ globalFiles' = GetProfilesFiles(globalFiles, t0)
         /\ ret' = GetProfilesList(globalFiles, t0)
         /\ last' = CallNote("deleteProfile", <<id>>, DeleteNote(id))
         /\ UNCHANGED <<fs, activeProfileId, inflight, mainVars, rendererVars>>
    ELSE LET profiles == SelectSeq(GetProfilesList(globalFiles, t0), LAMBDA p : p.id # id)
             written == WriteJSON(GetProfilesFiles(globalFiles, t0), "profiles", profiles)
         IN  /\ globalFiles' = GetProfilesFiles(written, t3)
             /\ fs' = RemoveDir(fs, id)
             /\ activeProfileId' = IF activeProfileId = id THEN DefaultId ELSE activeProfileId
             /\ ret' = GetProfilesList(written, t3)
             /\ last' = CallNote("deleteProfile", <<id>>, DeleteNote(id))
             /\ UNCHANGED <<inflight, mainVars, rendererVars>>

\* profiles.find((p) => p.id === id): the first match
FindProfile(profiles, id) ==
    profiles[CHOOSE i \in 1..Len(profiles) :
                /\ profiles[i].id = id
                /\ \A j \in 1..(i - 1) : profiles[j].id # id]

HasProfile(profiles, id) == \E i \in 1..Len(profiles) : profiles[i].id = id

SwitchProfileAlways(id, t0) ==
    LET profiles == GetProfilesList(globalFiles, t0)
    IN  /\ globalFiles' = GetProfilesFiles(globalFiles, t0)
        /\ activeProfileId' = id
        /\ ret' = IF HasProfile(profiles, id) THEN FindProfile(profiles, id) ELSE Null
        /\ last' = Call("switchProfile", <<id>>)
        /\ UNCHANGED <<fs, inflight, mainVars, rendererVars>>

SwitchProfile(id, t0) ==
    LET profiles == GetProfilesList(globalFiles, t0)
    IN  /\ globalFiles' = GetProfilesFiles(globalFiles, t0)
        /\ IF HasProfile(profiles, id)
           THEN activeProfileId' = id /\ ret' = FindProfile(profiles, id)
           ELSE activeProfileId' = activeProfileId /\ ret' = Null
        /\ last' = Call("switchProfile", <<id>>)
        /\ UNCHANGED <<fs, inflight, mainVars, rendererVars>>

\* getActiveProfile(): the first profile of the active id, or the first of
\* the list when none has it; the note tells whether one was found
GetActiveProfile(t0) ==
    LET profiles == GetProfilesList(globalFiles, t0)
    IN  /\ globalFiles' = GetProfilesFiles(globalFiles, t0)
        /\ ret' = IF HasProfile(profiles, activeProfileId)
                  THEN FindProfile(profiles, activeProfileId)
                  ELSE profiles[1]
        /\ last' = CallNote("getActiveProfile", <<>>,
                            [found |-> HasProfile(profiles, activeProfileId)])
        /\ UNCHANGED <<fs, activeProfileId, inflight, mainVars, rendererVars>>

(***************************************************************************)
(* Encryption layer.  A ciphertext iv:tag:data is kept as the record of    *)
(* the iv, the key the tag was computed under, the data it decrypts to     *)
(* under that key, and the byte lengths of its iv and tag fields.          *)
(***************************************************************************)
KeyFile == ".browser-key"

\* getAppKey(): the stored key, or the fresh key k when the key file is missing
AppKey(g, k) == IF KeyFile \in DOMAIN g THEN g[KeyFile] ELSE k

\* the files getAppKey() leaves: the key file is written on first use
AppKeyFiles(g, k) == IF KeyFile \in DOMAIN g THEN g ELSE WriteFile(g, KeyFile, k)

\* a string is the tuple of its UTF-16 code units; D83D is a high and DE00 a
\* low surrogate, FFFD the replacement character
HighSurrogates == {"D83D"}

LowSurrogates == {"DE00"}

\* the string that the UTF-8 bytes of x decode to: every surrogate that is
\* not part of a pair is encoded as the bytes of U+FFFD
RECURSIVE ToWellFormed(_)
ToWellFormed(x) ==
    IF Len(x) = 0 THEN x
    ELSE IF Len(x) >= 2 /\ x[1] \in HighSurrogates /\ x[2] \in LowSurrogates
    THEN <<x[1], x[2]>> \o ToWellFormed(SubSeq(x, 3, Len(x)))
    ELSE IF x[1] \in HighSurrogates \cup LowSurrogates
    THEN <<"FFFD">> \o ToWellFormed(Tail(x))
    ELSE <<x[1]>> \o ToWellFormed(Tail(x))

\* JSON.stringify escapes unpaired surrogates, so its text is well formed
Utf8(x) == IF IsJSON(x) THEN x ELSE ToWellFormed(x)

\* the envelope iv:tag:ciphertext: its number of colon-delimited fields, the
\* iv, the key its tag verifies under, the string its ciphertext decrypts to,
\* the bytes of crypto.randomBytes(16) and of cipher.getAuthTag()
EncryptData(key, iv, data) ==
    [fields |-> 3, iv |-> iv, key |-> key, data |-> Utf8(data),
     ivBytes |-> 16, tagBytes |-> 16]

\* the tag lengths decipher.setAuthTag accepts for aes-256-gcm; a tag cut to
\* one of them is compared with the first bytes of the computed tag
ValidTagLengths == {4, 8, 12, 13, 14, 15, 16}

\* decryptData does not throw: three fields, an iv and a tag node:crypto
\* accepts, and the tag verifies under the key
Decrypts(key, raw) ==
    /\ raw.fields = 3
    /\ raw.ivBytes > 0
    /\ raw.tagBytes \in ValidTagLengths
    /\ raw.key = key

DecryptDataReturnsUnverified(key, raw) ==
    IF raw.fields # 3
    THEN [threw |-> TRUE, error |-> "Invalid encrypted data"]
    ELSE [threw |-> FALSE, value |-> raw.data]

\* decryptData: the plaintext, or the error thrown by the length check, by
\* createDecipheriv, by setAuthTag or by decipher.final
DecryptData(key, raw) ==
    IF raw.fields # 3
    THEN [threw |-> TRUE, error |-> "Invalid encrypted data"]
    ELSE IF raw.ivBytes = 0
    THEN [threw |-> TRUE, error |-> "Invalid initialization vector"]
    ELSE IF raw.tagBytes \notin ValidTagLengths
    THEN [threw |-> TRUE,
          error |-> "Invalid authentication tag length: " \o ToString(raw.tagBytes)]
    ELSE IF raw.key # key
    THEN [threw |-> TRUE, error |-> "Unsupported state or unable to authenticate data"]
    ELSE [threw |-> FALSE, value |-> raw.data]

\* the exported encryptData and decryptData called on their own; k is the
\* key getAppKey() generates when the key file is missing
EncryptDataCall(x, k, iv) ==
    /\ globalFiles' = AppKeyFiles(globalFiles, k)
    /\ ret' = EncryptData(AppKey(globalFiles, k), iv, x)
    /\ last' = Call("encryptData", <<x>>)
    /\ UNCHANGED <<fs, activeProfileId, inflight, mainVars, rendererVars>>

DecryptDataCall(raw, k) ==
    /\ globalFiles' = AppKeyFiles(globalFiles, k)
    /\ ret' = DecryptData(AppKey(globalFiles, k), raw)
    /\ last' = Call("decryptData", <<raw>>)
    /\ UNCHANGED <<fs, activeProfileId, inflight, mainVars, rendererVars>>

ReadEncryptedNoVerify(g, name, k, fallback) ==
    IF name \in DOMAIN g /\ IsJSON(g[name].data)
    THEN Parse(g[name].data)
    ELSE fallback

\* readEncrypted: the decrypted and parsed document, or the fallback on any error
ReadEncrypted(g, name, k, fallback) ==
    IF /\ name \in DOMAIN g
       /\ Decrypts(AppKey(g, k), g[name])
       /\ IsJSON(g[name].data)
    THEN Parse(g[name].data)
    ELSE fallback

\* the files readEncrypted leaves: getAppKey runs only once the file was read
ReadEncryptedFiles(g, name, k) ==
    IF name \in DOMAIN g THEN AppKeyFiles(g, k) ELSE g

WriteEncrypted(g, name, k, iv, data) ==
    WriteFile(AppKeyFiles(g, k), name,
              EncryptData(AppKey(g, k), iv, Stringify(data)))

(***************************************************************************)
(* Accounts.                                                               *)
(***************************************************************************)
AuthFile == "auth.enc"

CredentialsFile == "credentials.enc"

LoggedOut == [isLoggedIn |-> FALSE, email |-> Null, token |-> Null, profileId |-> Null]

\* the key HMAC derives from the password: a key shorter than the block is
\* padded with zero bytes, so trailing zero bytes of the password are not told apart
RECURSIVE HmacKey(_)
HmacKey(password) ==
    IF Len(password) > 0 /\ password[Len(password)] = 0
    THEN HmacKey(SubSeq(password, 1, Len(password) - 1))
    ELSE password

Pbkdf2Plain(password, salt) == password

\* crypto.pbkdf2Sync(password, salt, 100000, 64, "sha512").toString("hex")
Pbkdf2(password, salt) == <<"pbkdf2", HmacKey(password), salt>>

GetCredentials(g, k) == ReadEncrypted(g, CredentialsFile, k, <<>>)

GetAuthState(g, k) == ReadEncrypted(g, AuthFile, k, LoggedOut)

HasEmail(creds, email) == \E i \in 1..Len(creds) : creds[i].email = email

\* creds.find((c) => c.email === email): the first match
FindUser(creds, email) ==
    creds[CHOOSE i \in 1..Len(creds) :
              /\ creds[i].email = email
              /\ \A j \in 1..(i - 1) : creds[j].email # email]

ReadAuthState(k) ==
    /\ globalFiles' = ReadEncryptedFiles(globalFiles, AuthFile, k)
    /\ ret' = GetAuthState(globalFiles, k)
    /\ last' = Call("getAuthState", <<>>)
    /\ UNCHANGED <<fs, activeProfileId, inflight, mainVars, rendererVars>>

\* k: the key if one must be generated, salt: the random salt, t: Date.now(),
\* iv1, iv2: the ivs of the two writes, token: the random token
RegisterUserNoCheck(email, password, k, salt, t, iv1, token, iv2) ==
    LET creds == GetCredentials(globalFiles, k)
        g0 == ReadEncryptedFiles(globalFiles, CredentialsFile, k)
        user == [email |-> email, passwordHash |-> Pbkdf2(password, salt),
                 salt |-> salt, createdAt |-> t]
        g1 == WriteEncrypted(g0, CredentialsFile, k, iv1, Append(creds, user))
    IN  /\ Len(creds) < 2
        /\ globalFiles' = WriteEncrypted(g1, AuthFile, k, iv2,
               [isLoggedIn |-> TRUE, email |-> email, token |-> token,
                profileId |-> activeProfileId])
        /\ ret' = [success |-> TRUE]
        /\ last' = Call("registerUser", <<email, password>>)
        /\ UNCHANGED <<fs, activeProfileId, inflight, mainVars, rendererVars>>

RegisterUserDefaultProfile(email, password, k, salt, t, iv1, token, iv2) ==
    LET creds == GetCredentials(globalFiles, k)
        g0 == ReadEncryptedFiles(globalFiles, CredentialsFile, k)
    IN  IF HasEmail(creds, email)
        THEN /\ globalFiles' = g0
             /\ ret' = [success |-> FALSE, error |-> "Email already registered"]
             /\ last' = Call("registerUser", <<email, password>>)
             /\ UNCHANGED <<fs, activeProfileId, inflight, mainVars, rendererVars>>
        ELSE LET user == [email |-> email, passwordHash |-> Pbkdf2(password, salt),
                          salt |-> salt, createdAt |-> t]
                 g1 == WriteEncrypted(g0, CredentialsFile, k, iv1, Append(creds, user))
             IN  /\ globalFiles' = WriteEncrypted(g1, AuthFile, k, iv2,
                        [isLoggedIn |-> TRUE, email |-> email, token |-> token,
                         profileId |-> DefaultId])
                 /\ ret' = [success |-> TRUE]
                 /\ last' = Call("registerUser", <<email, password>>)
                 /\ UNCHANGED <<fs, activeProfileId, inflight, mainVars, rendererVars>>

RegisterUser(email, password, k, salt, t, iv1, token, iv2) ==
    LET creds == GetCredentials(globalFiles, k)
        g0 == ReadEncryptedFiles(globalFiles, CredentialsFile, k)
    IN  IF HasEmail(creds, email)
        THEN /\ globalFiles' = g0
             /\ ret' = [success |-> FALSE, error |-> "Email already registered"]
             /\ last' = Call("registerUser", <<email, password>>)
             /\ UNCHANGED <<fs, activeProfileId, inflight, mainVars, rendererVars>>
        ELSE LET user == [email |-> email, passwordHash |-> Pbkdf2(password, salt),
                          salt |-> salt, createdAt |-> t]
                 g1 == WriteEncrypted(g0, CredentialsFile, k, iv1, Append(creds, user))
             IN  /\ globalFiles' = WriteEncrypted(g1, AuthFile, k, iv2,
                        [isLoggedIn |-> TRUE, email |-> email, token |-> token,
                         profileId |-> activeProfileId])
                 /\ ret' = [success |-> TRUE]
                 /\ last' = Call("registerUser", <<email, password>>)
                 /\ UNCHANGED <<fs, activeProfileId, inflight, mainVars, rendererVars>>

LoginUserNoSave(email, password, k, token, iv) ==
    LET creds == GetCredentials(globalFiles, k)
        g0 == ReadEncryptedFiles(globalFiles, CredentialsFile, k)
    IN  /\ globalFiles' = g0
        /\ ret' = IF HasEmail(creds, email)
                     /\ Pbkdf2(password, FindUser(creds, email).salt)
                            = FindUser(creds, email).passwordHash
                  THEN [success |-> TRUE]
                  ELSE [success |-> FALSE, error |-> "Invalid email or password"]
        /\ last' = Call("loginUser", <<email, password>>)
        /\ UNCHANGED <<fs, activeProfileId, inflight, mainVars, rendererVars>>

LoginUserTellsUnknown(email, password, k, token, iv) ==
    LET creds == GetCredentials(globalFiles, k)
        g0 == ReadEncryptedFiles(globalFiles, CredentialsFile, k)
    IN  IF ~HasEmail(creds, email)
        THEN /\ globalFiles' = g0
             /\ ret' = [success |-> FALSE, error |-> "Unknown email"]
             /\ last' = Call("loginUser", <<email, password>>)
             /\ UNCHANGED <<fs, activeProfileId, inflight, mainVars, rendererVars>>
        ELSE IF Pbkdf2(password, FindUser(creds, email).salt)
                    # FindUser(creds, email).passwordHash
        THEN /\ globalFiles' = g0
             /\ ret' = [success |-> FALSE, error |-> "Invalid email or password"]
             /\ last' = Call("loginUser", <<email, password>>)
             /\ UNCHANGED <<fs, activeProfileId, inflight, mainVars, rendererVars>>
        ELSE /\ globalFiles' = WriteEncrypted(g0, AuthFile, k, iv,
                    [isLoggedIn |-> TRUE, email |-> email, token |-> token,
                     profileId |-> activeProfileId])
             /\ ret' = [success |-> TRUE]
             /\ last' = Call("loginUser", <<email, password>>)
             /\ UNCHANGED <<fs, activeProfileId, inflight, mainVars, rendererVars>>

LoginUser(email, password, k, token, iv) ==
    LET creds == GetCredentials(globalFiles, k)
        g0 == ReadEncryptedFiles(globalFiles, CredentialsFile, k)
    IN  IF ~HasEmail(creds, email)
        THEN /\ globalFiles' = g0
             /\ ret' = [success |-> FALSE, error |-> "Invalid email or password"]
             /\ last' = Call("loginUser", <<email, password>>)
             /\ UNCHANGED <<fs, activeProfileId, inflight, mainVars, rendererVars>>
        ELSE IF Pbkdf2(password, FindUser(creds, email).salt)
                    # FindUser(creds, email).passwordHash
        THEN /\ globalFiles' = g0
             /\ ret' = [success |-> FALSE, error |-> "Invalid email or password"]
             /\ last' = Call("loginUser", <<email, password>>)
             /\ UNCHANGED <<fs, activeProfileId, inflight, mainVars, rendererVars>>
        ELSE /\ globalFiles' = WriteEncrypted(g0, AuthFile, k, iv,
                    [isLoggedIn |-> TRUE, email |-> email, token |-> token,
                     profileId |-> activeProfileId])
             /\ ret' = [success |-> TRUE]
             /\ last' = Call("loginUser", <<email, password>>)
             /\ UNCHANGED <<fs, activeProfileId, inflight, mainVars, rendererVars>>

LogoutUserNoWrite(k, iv) ==
    /\ ret' = <<>>
    /\ last' = Call("logoutUser", <<>>)
    /\ UNCHANGED <<globalFiles, fs, activeProfileId, inflight, mainVars, rendererVars>>

LogoutUserKeepsEmail(k, iv) ==
    /\ globalFiles' = WriteEncrypted(globalFiles, AuthFile, k, iv,
                          [GetAuthState(globalFiles, k) EXCEPT !.isLoggedIn = FALSE])
    /\ ret' = <<>>
    /\ last' = Call("logoutUser", <<>>)
    /\ UNCHANGED <<fs, activeProfileId, inflight, mainVars, rendererVars>>

LogoutUser(k, iv) ==
    /\ globalFiles' = WriteEncrypted(globalFiles, AuthFile, k, iv, LoggedOut)
    /\ ret' = <<>>
    /\ last' = Call("logoutUser", <<>>)
    /\ UNCHANGED <<fs, activeProfileId, inflight, mainVars, rendererVars>>

(***************************************************************************)
(* Initial states.                                                         *)
(***************************************************************************)
\* a fresh data root: nothing on disk, the default profile active
Init ==
    /\ globalFiles = NoFiles
    /\ fs = [d \in {} |-> NoFiles]
    /\ activeProfileId = DefaultId
    /\ inflight = NoCalls
    /\ InitMain
    /\ InitRenderer
    /\ last = Call("start", <<>>)
    /\ ret = <<>>

\* the program once app.whenReady() has run: setupAdBlocking() has read the
\* settings, which makes the directory of the default profile
InitApp ==
    /\ globalFiles = NoFiles
    /\ fs = [d \in {DefaultId} |-> NoFiles]
    /\ activeProfileId = DefaultId
    /\ inflight = NoCalls
    /\ InitMain
    /\ InitRenderer
    /\ last = Call("start", <<>>)
    /\ ret = <<>>

(***************************************************************************)
(* Bookmarks of the active profile.                                        *)
(***************************************************************************)
\* a fresh data root, or one where a second profile was created and made active
InitBookmarks ==
    \/ Init
    \/ /\ globalFiles = [n \in {"profiles"} |->
              Stringify(<<DefProfile(HistPrefill + 1),
                [id |-> GenId(HistPrefill + 1, "aaaa"), name |-> "Work", avatar |-> "person",
                 createdAt |-> HistPrefill + 1, isDefault |-> FALSE]>>)]
       /\ fs = [d \in {} |-> NoFiles]
       /\ activeProfileId = GenId(HistPrefill + 1, "aaaa")
       /\ inflight = NoCalls
       /\ InitMain
       /\ InitRenderer
       /\ last = Call("switchProfile", <<GenId(HistPrefill + 1, "aaaa")>>)
       /\ ret = [id |-> GenId(HistPrefill + 1, "aaaa"), name |-> "Work", avatar |-> "person",
                 createdAt |-> HistPrefill + 1, isDefault |-> FALSE]

NextBookmarks ==
    \/ \E u \in Urls, ti \in Titles, t \in Times : AddBookmark(u, ti, t)
    \/ \E u \in Urls : RemoveBookmark(u)
    \/ \E u \in Urls : IsBookmarked(u)
    \/ ReadBookmarks

SpecBookmarks == InitBookmarks /\ [][NextBookmarks]_vars

(***************************************************************************)
(* History of the active profile, from an empty document and from one that *)
(* HistPrefill earlier visits have filled (newest first).                  *)
(***************************************************************************)
PrefilledHistory ==
    [i \in 1..HistPrefill |->
        [url |-> "u1", title |-> "t1", visitedAt |-> HistPrefill + 1 - i]]

InitHistory ==
    /\ globalFiles = NoFiles
    /\ fs \in {[d \in {} |-> NoFiles],
               [d \in {DefaultId} |-> [n \in {"history"} |-> Stringify(PrefilledHistory)]]}
    /\ activeProfileId = DefaultId
    /\ inflight = NoCalls
    /\ InitMain
    /\ InitRenderer
    /\ last = Call("start", <<>>)
    /\ ret = <<>>

\* the entries of this run in the list: the earlier ones are stamped before Times
AddedHere(history) ==
    Cardinality({i \in 1..Len(history) : history[i].visitedAt > HistPrefill})

NextHistory ==
    \/ /\ AddedHere(GetHistory) < MaxHistAdds
       /\ \E u \in {"u1", "u2"}, t \in Times : AddHistoryEntry(u, "t1", t)
    \/ ClearHistory
    \/ ReadHistory

SpecHistory == InitHistory /\ [][NextHistory]_vars

(***************************************************************************)
(* Downloads of the active profile, from a document that DlPrefill earlier *)
(* downloads (ids 1..DlPrefill, the newest first) have filled.             *)
(***************************************************************************)
Item(id, received, state) ==
    [id |-> id, filename |-> "f.bin", url |-> "u1", savePath |-> "/tmp/f.bin",
     totalBytes |-> 2, receivedBytes |-> received, state |-> state, startedAt |-> 0]

PrefilledDownloads ==
    [i \in 1..DlPrefill |-> Item(DlPrefill + 1 - i, 0, "progressing")]

\* the oldest and the newest stored download, and three new ones
DlIds == {1, DlPrefill, DlPrefill + 1, DlPrefill + 2, DlPrefill + 3}

DlItems ==
    {Item(id, 1, "progressing") : id \in DlIds}
        \cup {Item(id, 2, "completed") : id \in {1, DlPrefill + 1}}

InitDownloads ==
    /\ globalFiles = NoFiles
    /\ fs = [d \in {DefaultId} |-> [n \in {"downloads"} |-> Stringify(PrefilledDownloads)]]
    /\ activeProfileId = DefaultId
    /\ inflight = NoCalls
    /\ InitMain
    /\ InitRenderer
    /\ last = Call("start", <<>>)
    /\ ret = <<>>

NextDownloads ==
    \/ \E item \in DlItems : SaveDownload(item)
    \/ ClearDownloads
    \/ ReadDownloads

SpecDownloads == InitDownloads /\ [][NextDownloads]_vars

(***************************************************************************)
(* The profile directory, with bookmarks as the profiles' data.            *)
(***************************************************************************)
NextProfiles ==
    \/ \E t \in Times : GetProfiles(t)
    \/ \E n \in Names, a \in Avatars, t \in Times, r \in Suffixes :
          CreateProfile(n, a, t, t, r, t)
    \/ \E id \in ProfileIds, t \in Times : DeleteProfile(id, t, t)
    \/ \E id \in ProfileIds, t \in Times : SwitchProfile(id, t)
    \/ \E t \in Times : AddBookmark("u1", "t1", t)

SpecProfiles == Init /\ [][NextProfiles]_vars

(***************************************************************************)
(* The profiles and their documents: every profile operation and every     *)
(* bookmark, history, settings, session and downloads operation, on small  *)
(* inputs.  (The account operations are the steps of NextAuth.)            *)
(***************************************************************************)
T0 == HistPrefill + 1

Work == GenId(T0, "aaaa")

\* the arguments of the calls of Next
NextPartial == [adBlockEnabled |-> FALSE]

NextSessionTabs == <<[url |-> "u1", title |-> "t1"]>>

NextDownload == Item(1, 1, "progressing")

\* a visit and a query that finds it, character by character
NextVisit == [url |-> <<"E", "x">>, title |-> <<"a">>]

NextQuery == <<"e", "X">>

\* getProfiles, createProfile, deleteProfile, switchProfile, getActiveProfile
NextProfileOps ==
    \/ GetProfiles(T0)
    \/ /\ ~HasProfile(StoredProfiles(globalFiles), Work)
       /\ CreateProfile("Work", "person", T0, T0, "aaaa", T0)
    \/ \E id \in {DefaultId, Work} : DeleteProfile(id, T0, T0)
    \/ \E id \in {DefaultId, Work} : SwitchProfile(id, T0)
    \/ GetActiveProfile(T0)

\* the exports that read or write a document of the active profile
NextDocs ==
    \/ AddBookmark("u1", "t1", T0)
    \/ RemoveBookmark("u1")
    \/ IsBookmarked("u1")
    \/ ReadBookmarks
    \/ Len(GetHistory) < MaxLogged /\ AddHistoryEntry(NextVisit.url, NextVisit.title, T0)
    \/ ClearHistory
    \/ SearchHistory(NextQuery)
    \/ ReadHistory
    \/ UpdateSettings(NextPartial)
    \/ ReadSettings
    \/ SaveSession(NextSessionTabs)
    \/ ReadSession
    \/ SaveDownload(NextDownload)
    \/ ClearDownloads
    \/ ReadDownloads

Next == NextProfileOps \/ NextDocs

Spec == Init /\ [][Next]_vars

(***************************************************************************)
(* Accounts, with the profile switches that change the profile an          *)
(* AuthState is bound to.                                                  *)
(***************************************************************************)
\* the key that getAppKey() may generate: none once the key file exists
FreshKeys == IF KeyFile \in DOMAIN globalFiles THEN {globalFiles[KeyFile]} ELSE Keys

NextAuth ==
    \/ \E e \in Emails, p \in Passwords, k \in FreshKeys, s \in Salts,
          iv1 \in Ivs, tk \in Tokens, iv2 \in Ivs :
          RegisterUser(e, p, k, s, T0, iv1, tk, iv2)
    \/ \E e \in Emails, p \in Passwords, k \in FreshKeys, tk \in Tokens, iv \in Ivs :
          LoginUser(e, p, k, tk, iv)
    \/ \E k \in FreshKeys, iv \in Ivs : LogoutUser(k, iv)
    \/ \E k \in FreshKeys : ReadAuthState(k)
    \/ \E id \in {DefaultId, Work} : SwitchProfile(id, T0)

SpecAuth == InitBookmarks /\ [][NextAuth]_vars

(***************************************************************************)
(* Settings of the active profile, from a data root where the settings     *)
(* document is missing, is the empty object, or holds some fields only     *)
(* (one of them a field the program does not know).                        *)
(***************************************************************************)
StoredSettings ==
    {NoFiles,
     [adBlockEnabled |-> FALSE],
     [searchEngine |-> "bing", restoreSession |-> FALSE],
     [searchEngine |-> "google", theme |-> "dark"]}

Partials ==
    {NoFiles,
     [adBlockEnabled |-> FALSE],
     [adBlockEnabled |-> TRUE],
     [searchEngine |-> "google"],
     [searchEngine |-> "duckduckgo"],
     [restoreSession |-> TRUE],
     [searchEngine |-> "bing", restoreSession |-> FALSE]}

InitSettings ==
    /\ globalFiles = NoFiles
    /\ \/ fs = [d \in {} |-> NoFiles]
       \/ fs = [d \in {DefaultId} |-> NoFiles]
       \/ \E doc \in StoredSettings :
              fs = [d \in {DefaultId} |-> [n \in {"settings"} |-> Stringify(doc)]]
    /\ activeProfileId = DefaultId
    /\ inflight = NoCalls
    /\ InitMain
    /\ InitRenderer
    /\ last = Call("start", <<>>)
    /\ ret = <<>>

NextSettings ==
    \/ \E partial \in Partials : UpdateSettings(partial)
    \/ ReadSettings

SpecSettings == InitSettings /\ [][NextSettings]_vars

(***************************************************************************)
(* Session snapshots of the default and of a created profile.              *)
(***************************************************************************)
Tab(url, title) == [url |-> url, title |-> title]

Sessions ==
    {<<>>,
     <<Tab("u1", "t1")>>,
     <<Tab("u1", "t1"), Tab("u2", "t2")>>,
     <<Tab("u2", "t2"), Tab("u1", "t1")>>,
     <<Tab("u1", "t1"), Tab("u1", "t1")>>}

NextSession ==
    \/ \E sessionTabs \in Sessions : SaveSession(sessionTabs)
    \/ ReadSession
    \/ \E id \in {DefaultId, Work} : SwitchProfile(id, T0)

SpecSession == InitBookmarks /\ [][NextSession]_vars

(***************************************************************************)
(* The encryption layer called on its own: strings with and without        *)
(* surrogates, envelopes of this and of another installation, envelopes    *)
(* with a field that was altered, and texts that do not have three fields. *)
(***************************************************************************)
Strings ==
    {<<>>, <<"a">>, <<"a", ":", "b">>, <<"D83D", "DE00">>,
     <<"D83D">>, <<"a", "DE00">>, <<"FFFD">>}

\* the key of another installation
ForeignKey == "k2"

\* the tag of an envelope whose iv, tag or ciphertext was altered verifies under no key
NoKeyVerifies == "none"

Envelopes ==
    {EncryptData(key, iv, x) : key \in Keys \cup {ForeignKey}, iv \in Ivs, x \in Strings}

FieldCounts == {1, 2, 4}

\* the lengths of a tag that was emptied or cut to its first 3 or 4 bytes
CutTags == {0, 3, 4}

Raws ==
    Envelopes
        \cup {[e EXCEPT !.key = NoKeyVerifies] : e \in Envelopes}
        \cup {[e EXCEPT !.fields = n] : e \in Envelopes, n \in FieldCounts}
        \cup {[e EXCEPT !.tagBytes = n] : e \in Envelopes, n \in CutTags}
        \cup {[e EXCEPT !.ivBytes = 0, !.key = NoKeyVerifies] : e \in Envelopes}

NextCrypto ==
    \/ \E x \in Strings, k \in FreshKeys, iv \in Ivs : EncryptDataCall(x, k, iv)
    \/ \E raw \in Raws, k \in FreshKeys : DecryptDataCall(raw, k)

SpecCrypto == Init /\ [][NextCrypto]_vars

(***************************************************************************)
(* Profiles and bookmarks over restarts of the process: the module is      *)
(* loaded again, the files stay.                                           *)
(***************************************************************************)
RestartKeepsActive ==
    /\ ret' = <<>>
    /\ last' = CallNote("restart", <<>>, activeProfileId)
    /\ UNCHANGED <<globalFiles, fs, activeProfileId, inflight, mainVars, rendererVars>>

\* the module initialisation `let activeProfileId = "default"` runs again;
\* the note keeps the profile that was active before
Restart ==
    /\ activeProfileId' = DefaultId
    /\ ret' = <<>>
    /\ last' = CallNote("restart", <<>>, activeProfileId)
    /\ UNCHANGED <<globalFiles, fs, inflight, mainVars, rendererVars>>

NextRestart ==
    \/ GetProfiles(T0)
    \/ /\ ~HasProfile(StoredProfiles(globalFiles), Work)
       /\ CreateProfile("Work", "person", T0, T0, "aaaa", T0)
    \/ \E id \in {DefaultId, Work} : DeleteProfile(id, T0, T0)
    \/ \E id \in {DefaultId, Work} : SwitchProfile(id, T0)
    \/ \E u \in {"u1", "u2"} : AddBookmark(u, "t1", T0)
    \/ \E u \in {"u1"} : RemoveBookmark(u)
    \/ ReadBookmarks
    \/ Restart

SpecRestart == Init /\ [][NextRestart]_vars

(***************************************************************************)
(* One process, and two processes, that add bookmarks and save downloads   *)
(* in the default profile of one data root.                                *)
(***************************************************************************)
RacedCalls ==
    {[op |-> "addBookmark", args |-> <<"u1", "t1">>],
     [op |-> "addBookmark", args |-> <<"u2", "t1">>],
     [op |-> "saveDownload", args |-> <<Item(1, 1, "progressing")>>],
     [op |-> "saveDownload", args |-> <<Item(1, 2, "completed")>>],
     [op |-> "saveDownload", args |-> <<Item(2, 1, "progressing")>>]}

NextOneProcess ==
    \/ \E p \in {"p1"}, call \in RacedCalls : BeginCall(p, call)
    \/ \E p \in {"p1"}, t \in {T0} : OpenCall(p, t)
    \/ \E p \in {"p1"} : FinishCall(p)

SpecOneProcess == Init /\ [][NextOneProcess]_vars

NextTwoProcesses ==
    \/ \E p \in Procs, call \in RacedCalls : BeginCall(p, call)
    \/ \E p \in Procs, t \in {T0} : OpenCall(p, t)
    \/ \E p \in Procs : FinishCall(p)

SpecTwoProcesses == Init /\ [][NextTwoProcesses]_vars

(***************************************************************************)
(* History search, over visits whose urls and titles are given character   *)
(* by character in mixed case.                                             *)
(***************************************************************************)
MaxSearched == 3

SearchUrls == {<<"E", "x">>, <<"e", "x", "e">>, <<"x", "/">>}

SearchTitles == {<<"X", "e">>, <<"a">>}

Queries == {<<>>, <<"e", "x">>, <<"E", "X">>, <<"x", "E">>, <<"A">>, <<"/", "e">>}

NextSearch ==
    \/ /\ Len(GetHistory) < MaxSearched
       /\ \E u \in SearchUrls, ti \in SearchTitles, t \in {T0} : AddHistoryEntry(u, ti, t)
    \/ ClearHistory
    \/ ReadHistory
    \/ \E query \in Queries : SearchHistory(query)

SpecSearch == Init /\ [][NextSearch]_vars

(***************************************************************************)
(* The stores over documents that something outside the program has       *)
(* damaged: a document of the active profile whose text does not parse, a  *)
(* bookmarks document that parses to null or to an object, an account      *)
(* document whose envelope, tag or plaintext is broken.                    *)
(***************************************************************************)
PlainDocs == {"bookmarks", "history", "settings"}

NoLists == {JsonNull, JsonObject}

Damages == {"fields", "tag", "tag emptied", "plaintext"}

\* the envelope after the damage: a colon lost, a tag that no longer
\* verifies, a tag field left empty, a ciphertext of a text that is no JSON
Damaged(raw, how) ==
    CASE how = "fields" -> [raw EXCEPT !.fields = 2]
      [] how = "tag" -> [raw EXCEPT !.key = NoKeyVerifies]
      [] how = "tag emptied" -> [raw EXCEPT !.tagBytes = 0]
      [] how = "plaintext" -> [raw EXCEPT !.data = Garbage]

DamagePlain(name, text) ==
    /\ ProfileDir \in DOMAIN fs
    /\ fs' = [fs EXCEPT ![ProfileDir] = WriteFile(fs[ProfileDir], name, text)]
    /\ ret' = <<>>
    /\ last' = Call("damage", <<name>>)
    /\ UNCHANGED <<globalFiles, activeProfileId, inflight, mainVars, rendererVars>>

DamageEncrypted(name, how) ==
    /\ name \in DOMAIN globalFiles
    /\ globalFiles' = [globalFiles EXCEPT ![name] = Damaged(@, how)]
    /\ ret' = <<>>
    /\ last' = Call("damage", <<name>>)
    /\ UNCHANGED <<fs, activeProfileId, inflight, mainVars, rendererVars>>

DamagedEmails == {<<"a", "b.com">>}

DamagedPasswords == {<<1>>, <<2>>}

DamagedTokens == {<<"hex", 1>>}

DamagedIvs == {"i1"}

NextDamaged ==
    \/ \E e \in DamagedEmails, p \in {<<1>>}, k \in FreshKeys, s \in Salts,
          iv \in DamagedIvs, tk \in DamagedTokens :
          RegisterUser(e, p, k, s, T0, iv, tk, iv)
    \/ \E e \in DamagedEmails, p \in DamagedPasswords, k \in FreshKeys,
          tk \in DamagedTokens, iv \in DamagedIvs :
          LoginUser(e, p, k, tk, iv)
    \/ \E k \in FreshKeys, iv \in DamagedIvs : LogoutUser(k, iv)
    \/ \E k \in FreshKeys : ReadAuthState(k)
    \/ \E u \in {"u1"}, ti \in {"t1"}, t \in {1} : AddBookmark(u, ti, t)
    \/ \E u \in {"u1"} : RemoveBookmark(u)
    \/ \E u \in {"u1"} : IsBookmarked(u)
    \/ ReadBookmarks
    \/ ReadHistory
    \/ ReadSettings
    \/ \E name \in PlainDocs : DamagePlain(name, Garbage)
    \/ \E text \in NoLists : DamagePlain("bookmarks", text)
    \/ \E name \in {AuthFile, CredentialsFile}, how \in Damages :
          DamageEncrypted(name, how)

SpecDamaged == Init /\ [][NextDamaged]_vars

(***************************************************************************)
(* Profile switches in a data root that holds bookmarks and an account.    *)
(***************************************************************************)
NextSwitch ==
    \/ /\ ~HasProfile(StoredProfiles(globalFiles), Work)
       /\ CreateProfile("Work", "person", T0, T0, "aaaa", T0)
    \/ \E id \in {DefaultId, Work} : DeleteProfile(id, T0, T0)
    \/ \E id \in {DefaultId, Work} : SwitchProfile(id, T0)
    \/ GetActiveProfile(T0)
    \/ \E u \in {"u1"}, ti \in {"t1"}, t \in {T0} : AddBookmark(u, ti, t)
    \/ \E e \in DamagedEmails, p \in {<<1>>}, k \in FreshKeys, s \in Salts,
          iv \in DamagedIvs, tk \in DamagedTokens :
          RegisterUser(e, p, k, s, T0, iv, tk, iv)
    \/ \E k \in FreshKeys, iv \in DamagedIvs : LogoutUser(k, iv)

SpecSwitch == Init /\ [][NextSwitch]_vars

(***************************************************************************)
(* Views used by the properties.                                           *)
(***************************************************************************)
DocIn(f, id, name) == IF id \in DOMAIN f THEN ReadJSON(f[id], name, <<>>) ELSE <<>>

CountUrl(list, url) == Cardinality({i \in 1..Len(list) : list[i].url = url})

CountId(list, id) == Cardinality({i \in 1..Len(list) : list[i].id = id})

NoDupUrl(list) == \A i, j \in 1..Len(list) : list[i].url = list[j].url => i = j

NoDupId(list) == \A i, j \in 1..Len(list) : list[i].id = list[j].id => i = j

(***************************************************************************)
(* Bookmarks: C1, C2 (SpecBookmarks).                                      *)
(***************************************************************************)
\* C1: after every addBookmark(url, title) the active profile stores exactly
\* one entry of url, and a call for a url that is already stored leaves the
\* profile's documents as they were (the first entry keeps its title, its
\* addedAt and its position) and returns the unchanged list.
C1_AddBookmarkIdempotent ==
    [][last'.op = "addBookmark" =>
          /\ CountUrl(GetBookmarks', last'.args[1]) = 1
          /\ HasUrl(GetBookmarks, last'.args[1]) =>
                /\ GetBookmarks' = GetBookmarks
                /\ fs' = fs
                /\ ret' = GetBookmarks]_vars

\* a second addBookmark for a stored url, with another title, has returned and
\* the stored entry, not the last one of the list, still has the first title
C1_Witness ==
    /\ last.op = "addBookmark"
    /\ \E i \in 1..(Len(GetBookmarks) - 1) :
          /\ GetBookmarks[i].url = last.args[1]
          /\ GetBookmarks[i].title # last.args[2]

\* C2: in every profile directory the bookmark list never holds two entries
\* of one url, and every step keeps the entries in insertion order: a step
\* leaves a profile's list as it is, appends one entry of a new url at its
\* end, or (removeBookmark) drops the entries of one url and keeps the others
\* in their order.
C2_BookmarksDistinctInOrder ==
    /\ [](\A id \in DOMAIN fs : NoDupUrl(DocIn(fs, id, "bookmarks")))
    /\ [][\A id \in ProfileIds :
            LET old == DocIn(fs, id, "bookmarks")
                new == DocIn(fs', id, "bookmarks")
            IN  \/ new = old
                \/ /\ last'.op = "addBookmark"
                   /\ Len(new) = Len(old) + 1
                   /\ SubSeq(new, 1, Len(old)) = old
                   /\ new[Len(new)].url = last'.args[1]
                   /\ ~HasUrl(old, last'.args[1])
                \/ /\ last'.op = "removeBookmark"
                   /\ new = SelectSeq(old, LAMBDA b : b.url # last'.args[1])]_vars

\* u2 was removed from between u1 and u3 (or never added): u1 is still first
C2_Witness ==
    /\ last.op = "removeBookmark"
    /\ last.args[1] = "u2"
    /\ Len(GetBookmarks) = 2
    /\ GetBookmarks[1].url = "u1"
    /\ GetBookmarks[2].url = "u3"

(***************************************************************************)
(* History: C3, C4 (SpecHistory).                                          *)
(***************************************************************************)
NewEntry == [url |-> last.args[1], title |-> last.args[2], visitedAt |-> last.args[3]]

\* C3: the history list never holds more than 1000 entries, and every
\* addHistoryEntry puts the new entry first and keeps the earlier entries
\* behind it in their order, as many as fit: the length becomes
\* min(length + 1, 1000), so that at the cap exactly the tail entry is dropped.
C3_HistoryCapped ==
    /\ [](Len(GetHistory) <= HISTORY_CAP)
    /\ [][last'.op = "addHistoryEntry" =>
            /\ Len(GetHistory') = Min(Len(GetHistory) + 1, HISTORY_CAP)
            /\ GetHistory'[1] = NewEntry'
            /\ \A i \in 2..Len(GetHistory') : GetHistory'[i] = GetHistory[i - 1]]_vars

\* the 1001st entry has been added to the filled list: 1000 entries are left,
\* the newest first, and the oldest one (stamped 1) is gone
C3_Witness ==
    /\ last.op = "addHistoryEntry"
    /\ AddedHere(GetHistory) = HISTORY_CAP + 1 - HistPrefill
    /\ Len(GetHistory) = HISTORY_CAP
    /\ GetHistory[1] = NewEntry
    /\ GetHistory[HISTORY_CAP].visitedAt = 2

\* C4 as stated: an addHistoryEntry for a url that is already in the history
\* puts the new entry at index 0, keeps every existing entry (unmodified, one
\* place further back), and below the cap makes the list one longer.
C4_Original ==
    [][last'.op = "addHistoryEntry" /\ HasUrl(GetHistory, last'.args[1]) =>
          /\ GetHistory'[1] = NewEntry'
          /\ \A i \in 1..Len(GetHistory) :
                i + 1 <= Len(GetHistory') /\ GetHistory'[i + 1] = GetHistory[i]
          /\ Len(GetHistory) < HISTORY_CAP => Len(GetHistory') = Len(GetHistory) + 1]_vars

\* C4 (amended): an addHistoryEntry for a url that is already in the history
\* puts the new entry at index 0 and keeps every existing entry unmodified,
\* one place further back, except the tail entry of a list that already holds
\* 1000, which is dropped; below the cap the list becomes one longer.
C4_AddAlwaysInserts ==
    [][last'.op = "addHistoryEntry" /\ HasUrl(GetHistory, last'.args[1]) =>
          /\ GetHistory'[1] = NewEntry'
          /\ \A i \in 1..Len(GetHistory) :
                i < HISTORY_CAP => i + 1 <= Len(GetHistory') /\ GetHistory'[i + 1] = GetHistory[i]
          /\ Len(GetHistory) < HISTORY_CAP => Len(GetHistory') = Len(GetHistory) + 1
          /\ Len(GetHistory) = HISTORY_CAP => Len(GetHistory') = HISTORY_CAP]_vars

\* u2 was added when two entries of u2 were already in a short history
C4_Witness ==
    /\ last.op = "addHistoryEntry"
    /\ last.args[1] = "u2"
    /\ Len(GetHistory) = 3
    /\ CountUrl(GetHistory, "u2") = 3
    /\ GetHistory[1] = NewEntry

(***************************************************************************)
(* Downloads: C5, C6 (SpecDownloads).                                      *)
(***************************************************************************)
\* C5: saveDownload(item) for an id that is in the list replaces that entry
\* in place (same index, every other entry and the length unchanged), so one
\* entry of the id is left and it is the item; for an id that is not in the
\* list the item is put at index 0.
C5_SaveDownloadUpserts ==
    [][last'.op = "saveDownload" =>
          LET item == last'.args[1]
              old == GetDownloads
              new == GetDownloads'
          IN  /\ CountId(new, item.id) = 1
              /\ CountId(old, item.id) > 0 =>
                    /\ Len(new) = Len(old)
                    /\ \A i \in 1..Len(old) :
                          new[i] = IF old[i].id = item.id THEN item ELSE old[i]
              /\ CountId(old, item.id) = 0 => new[1] = item]_vars

\* the oldest download (id 1, the tail) was saved again as completed and is
\* still the tail of the full-length list
C5_Witness ==
    /\ last.op = "saveDownload"
    /\ last.args[1].id = 1
    /\ last.args[1].receivedBytes = 2
    /\ Len(GetDownloads) >= DlPrefill
    /\ GetDownloads[Len(GetDownloads)] = last.args[1]

\* C6: the downloads list never holds more than 100 entries nor two entries
\* of one id, and a saveDownload of a new id into a list of 100 puts the item
\* first, keeps the first 99 entries behind it and so drops the tail entry.
C6_DownloadsCapped ==
    /\ [](Len(GetDownloads) <= DOWNLOADS_CAP /\ NoDupId(GetDownloads))
    /\ [][last'.op = "saveDownload" /\ Len(GetDownloads) = DOWNLOADS_CAP
             /\ CountId(GetDownloads, last'.args[1].id) = 0 =>
            /\ Len(GetDownloads') = DOWNLOADS_CAP
            /\ GetDownloads'[1] = last'.args[1]
            /\ \A i \in 2..DOWNLOADS_CAP : GetDownloads'[i] = GetDownloads[i - 1]
            /\ CountId(GetDownloads', GetDownloads[DOWNLOADS_CAP].id) = 0]_vars

\* a new id was saved into the full list: the oldest download (id 1) is gone
C6_Witness ==
    /\ last.op = "saveDownload"
    /\ Len(GetDownloads) = DOWNLOADS_CAP
    /\ GetDownloads[1] = last.args[1]
    /\ last.args[1].id > DlPrefill
    /\ CountId(GetDownloads, 1) = 0
    /\ GetDownloads[DOWNLOADS_CAP].id = 2

(***************************************************************************)
(* Profiles: C7, C8, C9 (SpecProfiles).                                    *)
(***************************************************************************)
\* C7 as stated: deleteProfile("default") changes nothing on disk nor the
\* active profile, in any state, and returns the stored list.
C7_Original ==
    [][last'.op = "deleteProfile" /\ last'.args[1] = DefaultId =>
          /\ globalFiles' = globalFiles
          /\ fs' = fs
          /\ activeProfileId' = activeProfileId
          /\ ret' = StoredProfiles(globalFiles)]_vars

\* C7 (amended): deleteProfile("default") leaves every profile directory and
\* the active profile id unchanged and returns the stored profile list; it
\* leaves the global documents unchanged when the profile document holds a
\* non-empty list, and otherwise writes the list of the one default profile.
C7_DeleteDefaultNoOp ==
    [][last'.op = "deleteProfile" /\ last'.args[1] = DefaultId =>
          /\ fs' = fs
          /\ activeProfileId' = activeProfileId
          /\ ret' = StoredProfiles(globalFiles')
          /\ StoredProfiles(globalFiles) # <<>> => globalFiles' = globalFiles
          /\ StoredProfiles(globalFiles) = <<>> =>
                /\ Len(StoredProfiles(globalFiles')) = 1
                /\ StoredProfiles(globalFiles')[1].id = DefaultId
                /\ StoredProfiles(globalFiles')[1].isDefault
                /\ \A n \in DOMAIN globalFiles :
                      n # "profiles" => n \in DOMAIN globalFiles' /\ globalFiles'[n] = globalFiles[n]]_vars

\* deleteProfile("default") was called with a second profile active and
\* the default profile holding a bookmark: all of it is still there
C7_Witness ==
    /\ last.op = "deleteProfile"
    /\ last.args[1] = DefaultId
    /\ activeProfileId # DefaultId
    /\ Len(StoredProfiles(globalFiles)) >= 2
    /\ StoredProfiles(globalFiles)[1].id = DefaultId
    /\ DocIn(fs, DefaultId, "bookmarks") # <<>>
    /\ ret = StoredProfiles(globalFiles)

\* C8: after any call of getProfiles, createProfile, deleteProfile or
\* switchProfile the profile list holds exactly one profile of id "default",
\* that profile alone has isDefault = true, and no two profiles share an id.
C8_ProfileIdsDistinct ==
    last.op \in {"getProfiles", "createProfile", "deleteProfile", "switchProfile"} =>
        LET profiles == StoredProfiles(globalFiles)
        IN  /\ CountId(profiles, DefaultId) = 1
            /\ \A i \in 1..Len(profiles) : profiles[i].isDefault <=> profiles[i].id = DefaultId
            /\ NoDupId(profiles)

\* C9: deleteProfile(id) for an id other than "default" leaves no entry of
\* id in the profile list and keeps every other stored entry in its place in
\* the order, removes the directory of id with all its documents, keeps every
\* other directory as it was, makes "default" active when id was active and
\* keeps the active profile otherwise, and returns the list it leaves.
C9_DeleteProfile ==
    [][last'.op = "deleteProfile" /\ last'.args[1] # DefaultId =>
          LET id == last'.args[1]
              before == StoredProfiles(globalFiles)
              after == StoredProfiles(globalFiles')
          IN  /\ ~HasProfile(after, id)
              /\ before # <<>> => after = SelectSeq(before, LAMBDA p : p.id # id)
              /\ before = <<>> => Len(after) = 1 /\ after[1].id = DefaultId
              /\ DOMAIN fs' = DOMAIN fs \ {id}
              /\ \A d \in DOMAIN fs' : fs'[d] = fs[d]
              /\ activeProfileId' = IF activeProfileId = id THEN DefaultId ELSE activeProfileId
              /\ ret' = after]_vars

\* the active profile, listed and with a directory of its own, was deleted:
\* "default" is active again, its bookmark is kept, the directory is gone
C9_Witness ==
    /\ last.op = "deleteProfile"
    /\ last.args[1] # DefaultId
    /\ last.note.listed /\ last.note.hadDir /\ last.note.wasActive
    /\ activeProfileId = DefaultId
    /\ last.args[1] \notin DOMAIN fs
    /\ ~HasProfile(StoredProfiles(globalFiles), last.args[1])
    /\ DocIn(fs, DefaultId, "bookmarks") # <<>>

(***************************************************************************)
(* Profile isolation: C10 (Spec).                                          *)
(***************************************************************************)
DocOps ==
    {"getBookmarks", "addBookmark", "removeBookmark", "isBookmarked",
     "getHistory", "addHistoryEntry", "clearHistory", "searchHistory",
     "getSettings", "updateSettings", "getSession", "saveSession",
     "getDownloads", "saveDownload", "clearDownloads"}

\* C10: a bookmark, history, settings, session or downloads operation changes
\* no directory but that of the active profile: every other profile keeps its
\* directory (or the lack of one) and every document in it, and the profile
\* list and the active profile id stay as they were.
C10_ProfileIsolation ==
    [][last'.op \in DocOps =>
          /\ \A id \in ProfileIds \ {activeProfileId} :
                /\ id \in DOMAIN fs' <=> id \in DOMAIN fs
                /\ id \in DOMAIN fs => fs'[id] = fs[id]
          /\ globalFiles' = globalFiles
          /\ activeProfileId' = activeProfileId]_vars

\* with the second profile active its bookmark was removed and its history
\* cleared, while the default profile still holds its own documents
C10_Witness ==
    /\ last.op = "clearHistory"
    /\ activeProfileId = Work
    /\ DocIn(fs, Work, "bookmarks") = <<>>
    /\ "bookmarks" \in DOMAIN fs[Work]
    /\ DocIn(fs, Work, "history") = <<>>
    /\ Len(DocIn(fs, DefaultId, "bookmarks")) = 1
    /\ Len(DocIn(fs, DefaultId, "history")) = 1
    /\ "settings" \in DOMAIN fs[DefaultId]
    /\ "session" \in DOMAIN fs[DefaultId]
    /\ Len(DocIn(fs, DefaultId, "downloads")) = 1

(***************************************************************************)
(* Views of the account documents.                                         *)
(***************************************************************************)
\* the key a reader generates when the key file is missing decrypts nothing stored
NoKey == "none"

Creds == GetCredentials(globalFiles, NoKey)

Auth == GetAuthState(globalFiles, NoKey)

\* the file as it is on disk, <<>> when it is missing
RawDoc(g, name) == IF name \in DOMAIN g THEN <<g[name]>> ELSE <<>>

\* a record of email holds the derived key of password under its own salt
Accepts(creds, email, password) ==
    \E i \in 1..Len(creds) :
        /\ creds[i].email = email
        /\ creds[i].passwordHash = Pbkdf2(password, creds[i].salt)

(***************************************************************************)
(* C11: after a successful registerUser(e, p), loginUser(e, p) succeeds    *)
(* and the AuthState read afterwards has isLoggedIn = true and email = e,  *)
(* whatever logouts, profile switches and registrations of other emails    *)
(* come in between.  Stated step by step: a successful registration makes  *)
(* the credentials accept (e, p); no call ever makes them stop accepting a *)
(* pair; a login of an accepted pair succeeds and leaves that AuthState.   *)
(***************************************************************************)
C11_RegisterThenLogin ==
    [][/\ (last'.op = "registerUser" /\ ret'.success)
              => Accepts(Creds', last'.args[1], last'.args[2])
       /\ \A e \in Emails, p \in Passwords :
              Accepts(Creds, e, p) => Accepts(Creds', e, p)
       /\ (last'.op = "loginUser" /\ Accepts(Creds, last'.args[1], last'.args[2]))
              => /\ ret' = [success |-> TRUE]
                 /\ Auth'.isLoggedIn
                 /\ Auth'.email = last'.args[1]]_vars

\* a login of the first registered email succeeded after a second email was
\* registered and the profile was switched
C11_Witness ==
    /\ last.op = "loginUser"
    /\ ret = [success |-> TRUE]
    /\ Len(Creds) = 2
    /\ Creds[1].email = last.args[1]
    /\ activeProfileId = Work
    /\ Auth.isLoggedIn
    /\ Auth.email = last.args[1]
    /\ Auth.profileId = Work

(***************************************************************************)
(* C12: a loginUser call with an unknown email, or with a known email and  *)
(* a password different from the registered one, returns a failure result, *)
(* and a failing call leaves the AuthState document and the credentials    *)
(* document exactly as they were.  The known-email case is stated for the  *)
(* login that directly follows the registration of that email.             *)
(***************************************************************************)
C12_FailedLoginChangesNothing ==
    [][last'.op = "loginUser" =>
          /\ ~HasEmail(Creds, last'.args[1]) => ~ret'.success
          /\ (/\ last.op = "registerUser"
              /\ ret = [success |-> TRUE]
              /\ last.args[1] = last'.args[1]
              /\ last.args[2] # last'.args[2]) => ~ret'.success
          /\ ~ret'.success =>
                /\ RawDoc(globalFiles', AuthFile) = RawDoc(globalFiles, AuthFile)
                /\ RawDoc(globalFiles', CredentialsFile)
                       = RawDoc(globalFiles, CredentialsFile)]_vars

(***************************************************************************)
(* C13: a failing loginUser does not tell whether the email is registered: *)
(* every failing call, of an unknown email as of a known one, returns the  *)
(* one result {success: false, error: "Invalid email or password"} and     *)
(* changes nothing, so two states that differ only in the record of the    *)
(* email give the same result and the same (empty) change.                 *)
(***************************************************************************)
C13_LoginFailureUniform ==
    [][(last'.op = "loginUser" /\ ~ret'.success) =>
          /\ ret' = [success |-> FALSE, error |-> "Invalid email or password"]
          /\ globalFiles' = globalFiles
          /\ fs' = fs
          /\ activeProfileId' = activeProfileId]_vars

\* a login of a registered email failed on the password while the other email
\* has no record, and somebody is logged in
C13_Witness ==
    /\ last.op = "loginUser"
    /\ ~ret.success
    /\ HasEmail(Creds, last.args[1])
    /\ \E e \in Emails : ~HasEmail(Creds, e)
    /\ Auth.isLoggedIn

NoDupEmail(creds) ==
    \A i, j \in 1..Len(creds) : creds[i].email = creds[j].email => i = j

(***************************************************************************)
(* C14: registerUser(e, p) fails with the result {success: false, error:   *)
(* "Email already registered"} whenever a credential record whose email is *)
(* exactly (case-sensitively) e exists, and then changes neither the       *)
(* credentials document nor the AuthState document; the credentials list   *)
(* never holds two records of one email.                                   *)
(***************************************************************************)
C14_DuplicateEmailRejected ==
    [][/\ (last'.op = "registerUser" /\ HasEmail(Creds, last'.args[1])) =>
              /\ ret' = [success |-> FALSE, error |-> "Email already registered"]
              /\ RawDoc(globalFiles', CredentialsFile)
                     = RawDoc(globalFiles, CredentialsFile)
              /\ RawDoc(globalFiles', AuthFile) = RawDoc(globalFiles, AuthFile)
       /\ NoDupEmail(Creds')]_vars

\* a registration was refused while both spellings of the address are registered
C14_Witness ==
    /\ last.op = "registerUser"
    /\ ret = [success |-> FALSE, error |-> "Email already registered"]
    /\ Len(Creds) = 2
    /\ Creds[1].email # Creds[2].email
    /\ HasEmail(Creds, last.args[1])

(***************************************************************************)
(* C15: on a successful registerUser or loginUser the persisted AuthState  *)
(* has isLoggedIn = true, the given email, a token, and profileId equal to *)
(* the profile that is active at the moment of the call.                   *)
(***************************************************************************)
C15_AuthStateOnSuccess ==
    [][(last'.op \in {"registerUser", "loginUser"} /\ ret'.success) =>
          /\ Auth'.isLoggedIn
          /\ Auth'.email = last'.args[1]
          /\ Auth'.token \in Tokens
          /\ Auth'.profileId = activeProfileId]_vars

\* a registration succeeded while the created profile was the active one
C15_Witness ==
    /\ last.op = "registerUser"
    /\ ret.success
    /\ activeProfileId = Work
    /\ Auth.isLoggedIn
    /\ Auth.email = last.args[1]
    /\ Auth.profileId = Work

(***************************************************************************)
(* C16: logoutUser, from any state, leaves AuthState equal to the          *)
(* logged-out zero value (isLoggedIn = false, email, token and profileId   *)
(* null) and leaves the credentials document unchanged, so that every pair *)
(* the credentials accepted is still accepted and a login of such a pair   *)
(* right after the logout succeeds.                                        *)
(***************************************************************************)
C16_LogoutResets ==
    [][/\ last'.op = "logoutUser" =>
              /\ Auth' = LoggedOut
              /\ RawDoc(globalFiles', CredentialsFile)
                     = RawDoc(globalFiles, CredentialsFile)
              /\ \A e \in Emails, p \in Passwords :
                     Accepts(Creds, e, p) => Accepts(Creds', e, p)
       /\ (/\ last.op = "logoutUser"
           /\ last'.op = "loginUser"
           /\ Accepts(Creds, last'.args[1], last'.args[2])) =>
              /\ ret' = [success |-> TRUE]
              /\ Auth'.isLoggedIn]_vars

\* a logout was made while two accounts are registered
C16_Witness ==
    /\ last.op = "logoutUser"
    /\ Auth = LoggedOut
    /\ AuthFile \in DOMAIN globalFiles
    /\ Len(Creds) = 2

\* the account files hold ciphertexts under the installation's key, and no
\* other file of the data root exists than the profile index and the key
EncryptedOnly(g) ==
    /\ DOMAIN g \subseteq {"profiles", KeyFile, AuthFile, CredentialsFile}
    /\ \A n \in {AuthFile, CredentialsFile} \cap DOMAIN g :
           /\ DOMAIN g[n] = {"fields", "iv", "key", "data", "ivBytes", "tagBytes"}
           /\ KeyFile \in DOMAIN g
           /\ Decrypts(g[KeyFile], g[n])

(***************************************************************************)
(* C17: the raw password passed to registerUser or loginUser is never      *)
(* written to a persisted document: a registration appends one record of   *)
(* the email, the salt, the time and the hash derived from the password    *)
(* and the salt (which is not the password), a login writes no credential, *)
(* the AuthState written holds the email, a token and the profile id only, *)
(* and both documents exist on disk as ciphertexts only, no call writing   *)
(* into a profile directory.                                               *)
(***************************************************************************)
C17_PasswordNeverStored ==
    [][last'.op \in {"registerUser", "loginUser"} =>
          /\ IF last'.op = "registerUser" /\ ret'.success
             THEN /\ Len(Creds') = Len(Creds) + 1
                  /\ SubSeq(Creds', 1, Len(Creds)) = Creds
                  /\ DOMAIN Creds'[Len(Creds')]
                         = {"email", "passwordHash", "salt", "createdAt"}
                  /\ Creds'[Len(Creds')].passwordHash # last'.args[2]
                  /\ Creds'[Len(Creds')].passwordHash
                         = Pbkdf2(last'.args[2], Creds'[Len(Creds')].salt)
                  /\ Creds'[Len(Creds')].salt \in Salts
                  /\ Creds'[Len(Creds')].email = last'.args[1]
                  /\ Creds'[Len(Creds')].createdAt \in Nat
             ELSE Creds' = Creds
          /\ \/ Auth' = Auth
             \/ \E tk \in Tokens :
                    Auth' = [isLoggedIn |-> TRUE, email |-> last'.args[1],
                             token |-> tk, profileId |-> activeProfileId]
          /\ EncryptedOnly(globalFiles')
          /\ fs' = fs]_vars

\* a registration succeeded: the record it appended holds the derived hash,
\* and both documents are on disk as ciphertexts
C17_Witness ==
    /\ last.op = "registerUser"
    /\ ret.success
    /\ Len(Creds) = 2
    /\ Creds[2].passwordHash = Pbkdf2(last.args[2], Creds[2].salt)
    /\ Creds[2].passwordHash # last.args[2]
    /\ EncryptedOnly(globalFiles)
    /\ {AuthFile, CredentialsFile} \subseteq DOMAIN globalFiles

\* the settings document of the active profile as it is stored
StoredSettingsDoc == ReadProfileDoc("settings", NoFiles)

(***************************************************************************)
(* C18: getSettings on a missing or empty settings document returns the    *)
(* full default object; on a document that holds only some fields, every   *)
(* field the document lacks has its default value and every field the      *)
(* document holds has its stored value.                                    *)
(***************************************************************************)
C18_SettingsDefaulting ==
    [][last'.op = "getSettings" =>
          /\ DOMAIN StoredSettingsDoc = {} => ret' = defaultSettings
          /\ DOMAIN ret' = DOMAIN defaultSettings \cup DOMAIN StoredSettingsDoc
          /\ \A k \in DOMAIN StoredSettingsDoc : ret'[k] = StoredSettingsDoc[k]
          /\ \A k \in DOMAIN defaultSettings \ DOMAIN StoredSettingsDoc :
                 ret'[k] = defaultSettings[k]]_vars

\* settings were read from a document that holds two of the three fields
C18_Witness ==
    /\ last.op = "getSettings"
    /\ StoredSettingsDoc = [searchEngine |-> "bing", restoreSession |-> FALSE]
    /\ ret = [searchEngine |-> "bing", adBlockEnabled |-> TRUE, restoreSession |-> FALSE]

(***************************************************************************)
(* C19: updateSettings(partial) changes exactly the fields named in        *)
(* partial: every field partial names has partial's value, and every other *)
(* field has, in the returned and in the persisted settings, the value     *)
(* getSettings returned just before the call.                              *)
(***************************************************************************)
C19_UpdateSettingsFrame ==
    [][last'.op = "updateSettings" =>
          /\ DOMAIN ret' = DOMAIN GetSettings \cup DOMAIN last'.args[1]
          /\ \A k \in DOMAIN last'.args[1] : ret'[k] = last'.args[1][k]
          /\ \A k \in DOMAIN GetSettings \ DOMAIN last'.args[1] :
                 ret'[k] = GetSettings[k]
          /\ StoredSettingsDoc' = ret'
          /\ GetSettings' = ret']_vars

\* only adBlockEnabled was updated, on settings whose other fields are not the defaults
C19_Witness ==
    /\ last.op = "updateSettings"
    /\ last.args[1] = [adBlockEnabled |-> FALSE]
    /\ ret = [searchEngine |-> "bing", adBlockEnabled |-> FALSE, restoreSession |-> FALSE]
    /\ StoredSettingsDoc = ret

(***************************************************************************)
(* C20: the session document is a full-replace snapshot: after             *)
(* saveSession(s) the session of the active profile is exactly s (the same *)
(* tabs in the same order) whatever was stored before, and a getSession    *)
(* that follows under the same active profile returns s.                   *)
(***************************************************************************)
C20_SessionFullReplace ==
    [][/\ last'.op = "saveSession" => GetSession' = last'.args[1]
       /\ (last.op = "saveSession" /\ last'.op = "getSession") =>
              ret' = last.args[1]
       /\ last'.op = "getSession" => ret' = GetSession /\ GetSession' = GetSession]_vars

\* a shorter snapshot in another order was read back in the created profile
\* while the default profile keeps a longer one
C20_Witness ==
    /\ last.op = "getSession"
    /\ activeProfileId = Work
    /\ ret = <<Tab("u2", "t2")>> \o <<Tab("u1", "t1")>>
    /\ DocIn(fs, DefaultId, "session") = <<Tab("u1", "t1"), Tab("u1", "t1")>>

(***************************************************************************)
(* C21: decryptData(encryptData(x)) equals x for every string x, the empty *)
(* string and strings that contain ':' included, also when other encrypt   *)
(* and decrypt calls come in between: the key file, once written, keeps    *)
(* its content, and decryptData of an envelope that encryptData returned   *)
(* for x under that key returns x.                                         *)
(***************************************************************************)
C21_RoundTrip ==
    [][/\ KeyFile \in DOMAIN globalFiles =>
              /\ KeyFile \in DOMAIN globalFiles'
              /\ globalFiles'[KeyFile] = globalFiles[KeyFile]
       /\ (last.op = "encryptData" /\ last'.op = "decryptData" /\ last'.args[1] = ret)
              => ret' = [threw |-> FALSE, value |-> last.args[1]]
       /\ (last'.op = "decryptData" /\ KeyFile \in DOMAIN globalFiles) =>
              \A x \in Strings, iv \in Ivs :
                  last'.args[1] = EncryptData(globalFiles[KeyFile], iv, x)
                      => ret' = [threw |-> FALSE, value |-> x]]_vars

(***************************************************************************)
(* C22: decryptData fails closed.  Called on a string that does not split  *)
(* into exactly three colon-delimited fields, or whose authentication tag  *)
(* does not verify under the installation's key (a tag computed under      *)
(* another key, an altered tag, a tag of a length that is not accepted),   *)
(* it throws and returns no plaintext; it returns a value only for a       *)
(* three-field envelope whose tag verifies.                                *)
(***************************************************************************)
C22_DecryptFailsClosed ==
    [][last'.op = "decryptData" =>
          LET raw == last'.args[1]
              key == globalFiles'[KeyFile]
          IN  /\ KeyFile \in DOMAIN globalFiles'
              /\ (\/ raw.fields # 3
                  \/ raw.key # key
                  \/ raw.tagBytes \notin ValidTagLengths) =>
                     /\ ret'.threw
                     /\ DOMAIN ret' = {"threw", "error"}
              /\ ~ret'.threw => raw.fields = 3 /\ raw.key = key]_vars

\* an envelope written under another key, whose three fields are intact, was
\* refused although the key file of this installation exists
C22_Witness ==
    /\ last.op = "decryptData"
    /\ last.args[1].fields = 3
    /\ last.args[1].key = ForeignKey
    /\ last.args[1].data = <<"a", ":", "b">>
    /\ globalFiles[KeyFile] \in Keys
    /\ ret.threw

(***************************************************************************)
(* C23: a read of a plain or encrypted document that is missing, that does *)
(* not parse, or (encrypted) whose envelope or tag check fails returns the *)
(* caller's fallback without raising and leaves every stored document as   *)
(* it was (the read may create the key file and the directory of the       *)
(* active profile); with such a credentials document loginUser fails as    *)
(* for an email that is not registered.  getAuthState reads the AuthState  *)
(* document only, and falls back to the logged-out state when that one is  *)
(* unreadable.                                                             *)
(***************************************************************************)
\* the document of the active profile is missing or its text does not parse
UnreadablePlain(name) ==
    \/ ProfileDir \notin DOMAIN fs
    \/ name \notin DOMAIN fs[ProfileDir]
    \/ ~IsJSON(fs[ProfileDir][name])

\* the account document is missing, or its envelope has not three fields, or
\* its tag does not verify under the stored key, or its plaintext is no JSON
UnreadableEncrypted(name) ==
    \/ name \notin DOMAIN globalFiles
    \/ KeyFile \notin DOMAIN globalFiles
    \/ ~Decrypts(globalFiles[KeyFile], globalFiles[name])
    \/ ~IsJSON(globalFiles[name].data)

\* the step changed no document: it may have added the key file and empty
\* profile directories
DocumentsKept ==
    /\ \A d \in DOMAIN fs : d \in DOMAIN fs' /\ fs'[d] = fs[d]
    /\ \A d \in DOMAIN fs' \ DOMAIN fs : fs'[d] = NoFiles
    /\ \A n \in DOMAIN globalFiles :
           n \in DOMAIN globalFiles' /\ globalFiles'[n] = globalFiles[n]
    /\ DOMAIN globalFiles' \ DOMAIN globalFiles \subseteq {KeyFile}

C23_ReadsFallBack ==
    [][/\ last'.op \in {"getBookmarks", "getHistory", "getSettings", "getAuthState"}
              => DocumentsKept
       /\ (last'.op = "getBookmarks" /\ UnreadablePlain("bookmarks")) => ret' = <<>>
       /\ (last'.op = "getHistory" /\ UnreadablePlain("history")) => ret' = <<>>
       /\ (last'.op = "getSettings" /\ UnreadablePlain("settings"))
              => ret' = defaultSettings
       /\ (last'.op = "getAuthState" /\ UnreadableEncrypted(AuthFile))
              => ret' = LoggedOut
       /\ (last'.op = "loginUser" /\ UnreadableEncrypted(CredentialsFile))
              => /\ ret' = [success |-> FALSE, error |-> "Invalid email or password"]
                 /\ DocumentsKept]_vars

\* a login with the registered password failed over a credentials document
\* whose tag no longer verifies, while the bookmarks text does not parse
C23_Witness ==
    /\ last.op = "loginUser"
    /\ last.args = <<<<"a", "b.com">>, <<1>>>>
    /\ ret = [success |-> FALSE, error |-> "Invalid email or password"]
    /\ CredentialsFile \in DOMAIN globalFiles
    /\ globalFiles[CredentialsFile].key = NoKeyVerifies
    /\ IsJSON(globalFiles[CredentialsFile].data)
    /\ Len(Parse(globalFiles[CredentialsFile].data)) = 1
    /\ ProfileDir \in DOMAIN fs
    /\ "bookmarks" \in DOMAIN fs[ProfileDir]
    /\ UnreadablePlain("bookmarks")

\* the claim as it was stated: with an unreadable credentials document
\* getAuthState, too, answers as if no user were registered
C23_Original ==
    [][(last'.op = "getAuthState" /\ UnreadableEncrypted(CredentialsFile))
           => ret' = LoggedOut]_vars

(***************************************************************************)
(* C24: no public store operation ends by an unhandled error, whatever the *)
(* content of the persisted documents (missing, unparsable, or JSON of an  *)
(* unexpected shape such as null or an object where a list is expected):   *)
(* no call of the bookmark and account operations is left by an error.     *)
(***************************************************************************)
C24_NoUnhandledError ==
    last.op \in {"getBookmarks", "addBookmark", "removeBookmark", "isBookmarked",
                 "getHistory", "getSettings", "getAuthState", "registerUser",
                 "loginUser", "logoutUser"}
        => last.note # Threw

(***************************************************************************)
(* C25: searchHistory(q) returns exactly the entries of the history whose  *)
(* url or title contains q when the case of letters is ignored, in the     *)
(* order of the history, and leaves the history document as it was.        *)
(***************************************************************************)
\* the letters that differ in case only
CaseClasses == {{"e", "E"}, {"x", "X"}, {"a", "A"}}

SameUpToCase(a, b) == a = b \/ \E c \in CaseClasses : a \in c /\ b \in c

\* q occurs in str at some position, up to the case of the letters
ContainsIgnoringCase(str, q) ==
    \E i \in 0..(Len(str) - Len(q)) :
        \A j \in 1..Len(q) : SameUpToCase(str[i + j], q[j])

C25_SearchHistory ==
    [][last'.op = "searchHistory" =>
          /\ ret' = SelectSeq(GetHistory,
                        LAMBDA h : \/ ContainsIgnoringCase(h.url, last'.args[1])
                                   \/ ContainsIgnoringCase(h.title, last'.args[1]))
          /\ GetHistory' = GetHistory
          /\ DocumentsKept]_vars

\* the search for "ex" returned the newest of three stored visits, of "Ex",
\* and the oldest, and left out the visit of "x/" between them
C25_Witness ==
    /\ last.op = "searchHistory"
    /\ last.args[1] = <<"e", "x">>
    /\ Len(GetHistory) = 3
    /\ Len(ret) = 2
    /\ ret[1] = GetHistory[1]
    /\ ret[2] = GetHistory[3]
    /\ ret[1].url = <<"E", "x">>
    /\ GetHistory[2].url = <<"x", "/">>

(***************************************************************************)
(* C26: the active profile id lives in the process only.  A restart makes  *)
(* "default" the active profile whatever profile was active before, and    *)
(* leaves the profile list and every document of every profile as they     *)
(* were; the first read after it is served from the default profile.       *)
(***************************************************************************)
C26_RestartOnDefault ==
    [][/\ last'.op = "restart" =>
              /\ activeProfileId' = DefaultId
              /\ globalFiles' = globalFiles
              /\ fs' = fs
       /\ (last.op = "restart" /\ last'.op = "getBookmarks") =>
              ret' = DocIn(fs, DefaultId, "bookmarks")]_vars

\* the process was restarted while the created profile was active: that
\* profile is still listed and keeps its bookmark, "default" is active
C26_Witness ==
    /\ last.op = "restart"
    /\ last.note = Work
    /\ activeProfileId = DefaultId
    /\ HasProfile(StoredProfiles(globalFiles), Work)
    /\ Len(DocIn(fs, Work, "bookmarks")) = 2
    /\ DocIn(fs, DefaultId, "bookmarks") = <<>>

(***************************************************************************)
(* C27: within one process every mutating operation reads and writes in    *)
(* one uninterrupted step: when a call opens its file to write, and when   *)
(* it returns without writing, the document is still the one it read, and  *)
(* when it returns the document is the one it read with the call applied   *)
(* (a bookmark of a new url appended, a download replaced in its place or  *)
(* put in front), so no earlier call's effect is lost; the other document  *)
(* is untouched by every step of the call.                                 *)
(***************************************************************************)
\* the step in which the call of process p returns
Returns(p) == inflight[p].op # "none" /\ inflight'[p].op = "none"

\* the step in which the call of process p opens its file for writing
Opens(p) == ~inflight[p].open /\ inflight'[p].open

\* after is list with a bookmark of url and title appended
AddsTo(list, after, url, title) ==
    /\ Len(after) = Len(list) + 1
    /\ SubSeq(after, 1, Len(list)) = list
    /\ after[Len(after)].url = url
    /\ after[Len(after)].title = title

\* after is list with item in the place of the first download of its id, or
\* in front of the list when it holds none
UpsertsInto(list, after, item) ==
    IF \E i \in 1..Len(list) : list[i].id = item.id
    THEN /\ Len(after) = Len(list)
         /\ \A j \in 1..Len(list) :
                after[j] = IF /\ list[j].id = item.id
                              /\ \A k \in 1..(j - 1) : list[k].id # item.id
                           THEN item ELSE list[j]
    ELSE after = <<item>> \o list

\* the call of p, applied to list, leaves after (found is what it overwrites)
AppliedTo(p, list, found) ==
    LET call == inflight[p]
        after == DocIn(fs', activeProfileId, DocOf(call.op))
    IN  IF call.op = "addBookmark"
        THEN IF HasUrl(list, call.args[1]) THEN after = found
             ELSE AddsTo(list, after, call.args[1], call.args[2])
        ELSE UpsertsInto(list, after, call.args[1])

OtherDoc(op) == IF op = "addBookmark" THEN "downloads" ELSE "bookmarks"

C27_SequentialWithinProcess ==
    [][\A p \in Procs :
          /\ Opens(p) =>
                /\ inflight[p].read = OnDisk(inflight[p].op)
                /\ DocIn(fs', activeProfileId, OtherDoc(inflight[p].op))
                      = DocIn(fs, activeProfileId, OtherDoc(inflight[p].op))
          /\ Returns(p) =>
                /\ ~inflight[p].open => inflight[p].read = OnDisk(inflight[p].op)
                /\ AppliedTo(p, inflight[p].read, OnDisk(inflight[p].op))
                /\ DocIn(fs', activeProfileId, OtherDoc(inflight[p].op))
                      = DocIn(fs, activeProfileId, OtherDoc(inflight[p].op))]_vars

\* four calls of one process, one after the other: both bookmarks are there
\* in the order of the calls, the second download went in front and the
\* first one was then completed in its place
C27_Witness ==
    /\ last.op = "saveDownload"
    /\ last.note.by = "p1"
    /\ Len(GetBookmarks) = 2
    /\ GetBookmarks[1].url = "u1"
    /\ GetBookmarks[2].url = "u2"
    /\ GetDownloads = <<Item(2, 1, "progressing"), Item(1, 2, "completed")>>

(***************************************************************************)
(* C28: two processes that run a read-modify-write on the same document    *)
(* are not kept apart by any lock: when a call returns, the document is    *)
(* the one the call read with its own change applied, whatever the other   *)
(* process wrote in between, so the document is the one of the writer that *)
(* finishes last and the other writer's update can be missing from it.     *)
(* It fails when both processes have opened the file before either writes  *)
(* and the writer that finishes last writes the shorter text: the file     *)
(* then holds that text followed by the end of the longer one, which is    *)
(* the document of neither writer and does not parse.                      *)
(***************************************************************************)
C28_LastWriterWins ==
    [][\A p \in Procs : Returns(p) =>
          AppliedTo(p, inflight[p].read, OnDisk(inflight[p].op))]_vars

(***************************************************************************)
(* C29: switchProfile(id) makes id the active profile and returns its      *)
(* profile when id is in the profile list (the list of the one default     *)
(* profile when the profile document is missing or empty); for any other   *)
(* id it returns null and keeps the active profile.  In both cases the     *)
(* documents of every profile, the credentials and the AuthState stay as   *)
(* they were; the profile document stays as it was when it holds a list    *)
(* that is not empty, and is written with the one default profile when it  *)
(* is missing or empty.                                                    *)
(***************************************************************************)
\* id is in the list getProfiles() returns
Listed(id) ==
    \/ HasProfile(StoredProfiles(globalFiles), id)
    \/ StoredProfiles(globalFiles) = <<>> /\ id = DefaultId

C29_SwitchProfileFrame ==
    [][last'.op = "switchProfile" =>
          LET id == last'.args[1]
          IN  /\ activeProfileId' = IF Listed(id) THEN id ELSE activeProfileId
              /\ Listed(id) => ret' = FindProfile(StoredProfiles(globalFiles'), id)
              /\ ~Listed(id) => ret' = Null
              /\ fs' = fs
              /\ \A n \in DOMAIN globalFiles \ {"profiles"} :
                     n \in DOMAIN globalFiles' /\ globalFiles'[n] = globalFiles[n]
              /\ DOMAIN globalFiles' \subseteq DOMAIN globalFiles \cup {"profiles"}
              /\ StoredProfiles(globalFiles) # <<>> => globalFiles' = globalFiles
              /\ StoredProfiles(globalFiles) = <<>> =>
                     /\ Len(StoredProfiles(globalFiles')) = 1
                     /\ StoredProfiles(globalFiles')[1].id = DefaultId]_vars

\* a switch to an id that the list does not hold was refused: the default
\* profile is active, its bookmark and the logged-in account are in place
C29_Witness ==
    /\ last.op = "switchProfile"
    /\ last.args[1] = Work
    /\ activeProfileId = DefaultId
    /\ Len(StoredProfiles(globalFiles)) = 1
    /\ Len(Creds) = 1
    /\ Auth.isLoggedIn
    /\ Len(DocIn(fs, DefaultId, "bookmarks")) = 1

\* the claim as it was stated: no switchProfile call changes the profile list
C29_Original ==
    [][last'.op = "switchProfile" =>
          /\ RawDoc(globalFiles', "profiles") = RawDoc(globalFiles, "profiles")
          /\ fs' = fs]_vars

(***************************************************************************)
(* C30: in every state reached through createProfile, deleteProfile and    *)
(* switchProfile the active profile id is the id of a profile of the list  *)
(* getProfiles() returns, and getActiveProfile returns a profile of that   *)
(* id, never the first entry of the list in place of a missing one.        *)
(***************************************************************************)
C30_ActiveProfileListed ==
    /\ Listed(activeProfileId)
    /\ last.op = "getActiveProfile" =>
           /\ last.note.found
           /\ ret.id = activeProfileId

\* the created profile was made active and getActiveProfile returned it,
\* the second entry of the list
C30_Witness ==
    /\ last.op = "getActiveProfile"
    /\ activeProfileId = Work
    /\ ret.id = Work
    /\ StoredProfiles(globalFiles)[1].id = DefaultId
    /\ StoredProfiles(globalFiles)[2] = ret

(***************************************************************************)
(* C31: in every state reached through registerUser, loginUser and         *)
(* logoutUser the AuthState is well formed: logged out with email, token   *)
(* and profileId all null, or logged in with none of them null and the     *)
(* email that of a record of the credentials document.                     *)
(***************************************************************************)
C31_AuthStateWellFormed ==
    IF Auth.isLoggedIn
    THEN /\ Auth.email # Null
         /\ Auth.token # Null
         /\ Auth.profileId # Null
         /\ HasEmail(Creds, Auth.email)
    ELSE /\ Auth.email = Null
         /\ Auth.token = Null
         /\ Auth.profileId = Null

\* a logout after a registration: the AuthState document is there, holds
\* the logged-out state with its three nulls, and the account is kept
C31_Witness ==
    /\ last.op = "logoutUser"
    /\ AuthFile \in DOMAIN globalFiles
    /\ ~Auth.isLoggedIn
    /\ Auth.email = Null
    /\ Len(Creds) = 1

(***************************************************************************)
(* C32: in every reachable state in which the AuthState is logged in, its  *)
(* profileId is the id of a profile of the list getProfiles() returns,     *)
(* also after the profile that was active at login time was deleted.       *)
(***************************************************************************)
C32_AuthProfileExists ==
    Auth.isLoggedIn => Listed(Auth.profileId)

(***************************************************************************)
(* The download handler of main.ts.  A JavaScript Map is a list of         *)
(* [key, val] pairs in insertion order: set() of a key that is present     *)
(* replaces its value in place, delete() removes the pair.                 *)
(***************************************************************************)
MaxDownloads == 2

MapHas(m, key) == \E i \in 1..Len(m) : m[i].key = key

MapGet(m, key) == m[CHOOSE i \in 1..Len(m) : m[i].key = key].val

MapSet(m, key, val) ==
    IF MapHas(m, key)
    THEN [i \in 1..Len(m) |-> IF m[i].key = key THEN [key |-> key, val |-> val] ELSE m[i]]
    ELSE Append(m, [key |-> key, val |-> val])

MapDelete(m, key) == SelectSeq(m, LAMBDA e : e.key # key)

\* `dl-${Date.now()}-${Math.random().toString(36).slice(2, 6)}`
DlId(t, r) == <<"dl", t, r>>

DlTimes == {1, 2}

DlSuffixes == {"aaaa"}

\* what the item reports when an event is handled: getReceivedBytes(),
\* getTotalBytes(), getSavePath()
Reports ==
    {[receivedBytes |-> 1, totalBytes |-> 2, savePath |-> "/tmp/f.bin"],
     [receivedBytes |-> 1, totalBytes |-> 3, savePath |-> "/tmp/g.bin"]}

\* item.getReceivedBytes() when the item is done
Received == {2}

\* the states Electron reports with an updated and with a done event
UpdatedStates == {"progressing", "interrupted"}

DoneStates == {"completed", "cancelled", "interrupted"}

\* mainWindow?.webContents.send(channel, data): the messages of one handler run
Sent(channel, data) ==
    IF mainWindow = Null THEN <<>> ELSE <<[channel |-> channel, data |-> data]>>

\* mainWindow.on("closed", ...): the window and its renderer are gone, and
\* with them what the renderer had sent and the main process had not handled
WindowClosed ==
    /\ mainWindow # Null
    /\ mainWindow' = Null
    /\ ipc' = <<>>
    /\ pending' = <<>>
    /\ ret' = <<>>
    /\ last' = Call("closed", <<>>)
    /\ UNCHANGED <<globalFiles, fs, activeProfileId, inflight, activeDownloads, items,
                   tabs, tabObjs, webviews, activeTabId, urlBar, bookmarksBar>>

\* app.on("activate", ...): createWindow() when no window is left; the new
\* window loads the renderer anew
Activate ==
    /\ IF mainWindow = Null
       THEN /\ mainWindow' = <<"BrowserWindow">>
            /\ tabs' = <<>>
            /\ tabObjs' = <<>>
            /\ webviews' = <<>>
            /\ activeTabId' = Null
            /\ urlBar' = ""
            /\ bookmarksBar' = <<>>
            /\ pending' = <<>>
            /\ ipc' = <<>>
       ELSE UNCHANGED <<mainWindow, rendererVars>>
    /\ ret' = <<>>
    /\ last' = Call("activate", <<>>)
    /\ UNCHANGED <<globalFiles, fs, activeProfileId, inflight, activeDownloads, items>>

\* session.defaultSession.on("will-download", ...)
WillDownload(t, r, t2) ==
    LET id == DlId(t, r)
        dlItem == [Item(id, 0, "progressing") EXCEPT !.startedAt = t2]
        item == Len(items) + 1
    IN  /\ Len(items) < MaxDownloads
        /\ activeDownloads' = MapSet(activeDownloads, id, item)
        /\ items' = Append(items, [id |-> id, dlItem |-> dlItem, done |-> FALSE])
        /\ fs' = WriteProfileDoc("downloads", UpsertDownload(GetDownloads, dlItem))
        /\ ret' = Sent("download:started", dlItem)
        /\ last' = Call("will-download", <<item>>)
        /\ UNCHANGED <<globalFiles, activeProfileId, inflight, mainWindow, rendererVars>>

\* dlItem.state = state === "interrupted" ? "interrupted" : "progressing"
OnUpdatedState(state) == IF state = "interrupted" THEN "interrupted" ELSE "progressing"

\* item.on("updated", ...): Electron sends it while the item is not done
OnUpdated(item, state, now) ==
    /\ item \in 1..Len(items)
    /\ ~items[item].done
    /\ LET dlItem == [items[item].dlItem EXCEPT
                         !.receivedBytes = now.receivedBytes,
                         !.totalBytes = now.totalBytes,
                         !.savePath = now.savePath,
                         !.state = OnUpdatedState(state)]
       IN  /\ items' = [items EXCEPT ![item].dlItem = dlItem]
           /\ fs' = WriteProfileDoc("downloads", UpsertDownload(GetDownloads, dlItem))
           /\ ret' = Sent("download:updated", dlItem)
    /\ last' = Call("updated", <<item, state>>)
    /\ UNCHANGED <<globalFiles, activeProfileId, inflight, activeDownloads, mainWindow,
                   rendererVars>>

\* dlItem.state = state === "completed" ? "completed" : "cancelled"
OnDoneState(state) == IF state = "completed" THEN "completed" ELSE "cancelled"

\* item.once("done", ...)
OnDone(item, state, received) ==
    /\ item \in 1..Len(items)
    /\ ~items[item].done
    /\ LET dlItem == [items[item].dlItem EXCEPT
                         !.receivedBytes = received, !.state = OnDoneState(state)]
       IN  /\ items' = [items EXCEPT ![item].dlItem = dlItem, ![item].done = TRUE]
           /\ fs' = WriteProfileDoc("downloads", UpsertDownload(GetDownloads, dlItem))
           /\ ret' = Sent("download:done", dlItem)
    /\ activeDownloads' = MapDelete(activeDownloads, items[item].id)
    /\ last' = Call("done", <<item, state>>)
    /\ UNCHANGED <<globalFiles, activeProfileId, inflight, mainWindow, rendererVars>>

\* the events of the download items and of the window, with the two
\* Date.now() of a will-download in the same millisecond
NextDownloadHandler ==
    \/ \E t \in DlTimes, r \in DlSuffixes : WillDownload(t, r, t)
    \/ \E item \in 1..MaxDownloads, state \in UpdatedStates, now \in Reports :
           OnUpdated(item, state, now)
    \/ \E item \in 1..MaxDownloads, state \in DoneStates, received \in Received :
           OnDone(item, state, received)
    \/ ClearDownloads
    \/ ReadDownloads
    \/ WindowClosed
    \/ Activate

SpecDownloadHandler == InitApp /\ [][NextDownloadHandler]_vars

\* the record stored under the id
InList(downloads, id) == FindIndex(downloads, id) > 0

StoredState(downloads, id) == downloads[FindIndex(downloads, id)].state

\* the item last names
Evt == items[last.args[1]]

(***************************************************************************)
(* C33: For each download the handler persists the record under one fixed  *)
(* id for its whole life: with state "progressing" at will-download, on    *)
(* each updated event with "interrupted" when the event state is           *)
(* interrupted and "progressing" otherwise, on the done event with         *)
(* "completed" when the event state is completed and "cancelled"           *)
(* otherwise; once the done event of a download is handled no entry of     *)
(* activeDownloads holds its item, and the record stored under its id is   *)
(* never "progressing".                                                    *)
(***************************************************************************)
C33_DownloadLifecycle ==
    /\ [][/\ \A k \in 1..Len(items) :
                 items'[k].id = items[k].id /\ items'[k].dlItem.id = items[k].id
          /\ last'.op = "will-download" =>
                 /\ Evt'.dlItem.id = Evt'.id
                 /\ InList(GetDownloads', Evt'.id)
                 /\ StoredState(GetDownloads', Evt'.id) = "progressing"
          /\ last'.op = "updated" =>
                 /\ InList(GetDownloads', Evt'.id)
                 /\ StoredState(GetDownloads', Evt'.id) =
                        (IF last'.args[2] = "interrupted" THEN "interrupted"
                         ELSE "progressing")
          /\ last'.op = "done" =>
                 /\ InList(GetDownloads', Evt'.id)
                 /\ StoredState(GetDownloads', Evt'.id) =
                        (IF last'.args[2] = "completed" THEN "completed"
                         ELSE "cancelled")]_vars
    /\ [](\A k \in 1..Len(items) :
              items[k].done =>
                  /\ \A i \in 1..Len(activeDownloads) : activeDownloads[i].val # k
                  /\ InList(GetDownloads, items[k].id)
                         => StoredState(GetDownloads, items[k].id) # "progressing")

(***************************************************************************)
(* C34: After clearDownloads the stored list is empty, and a download that *)
(* was in progress when the list was cleared is not written back: an       *)
(* updated or done event of a download whose record is not in the list     *)
(* leaves the list without a record of that download.                      *)
(***************************************************************************)
C34_ClearedStaysCleared ==
    [][/\ last'.op = "clearDownloads" => GetDownloads' = <<>>
       /\ (/\ last'.op \in {"updated", "done"}
           /\ ~InList(GetDownloads, Evt'.id))
              => ~InList(GetDownloads', Evt'.id)]_vars

(***************************************************************************)
(* The session:get handler of main.ts, with the settings and the session   *)
(* snapshot the renderer sends.                                            *)
(***************************************************************************)
SessionGetIgnoresSetting ==
    /\ fs' = Touched
    /\ ret' = GetSession
    /\ last' = Call("session:get", <<>>)
    /\ UNCHANGED <<globalFiles, activeProfileId, inflight, mainVars, rendererVars>>

\* ipcMain.handle("session:get", ...)
SessionGet ==
    LET settings == GetSettings
    IN  /\ fs' = Touched
        /\ ret' = IF ~settings.restoreSession THEN <<>> ELSE GetSession
        /\ last' = Call("session:get", <<>>)
        /\ UNCHANGED <<globalFiles, activeProfileId, inflight, mainVars, rendererVars>>

RestorePartials ==
    {[restoreSession |-> TRUE],
     [restoreSession |-> FALSE],
     [searchEngine |-> "bing"]}

NextSessionGet ==
    \/ SessionGet
    \/ \E sessionTabs \in Sessions : SaveSession(sessionTabs)
    \/ \E partial \in RestorePartials : UpdateSettings(partial)
    \/ ReadSession

SpecSessionGet == InitSettings /\ [][NextSessionGet]_vars

(***************************************************************************)
(* C35: session:get returns the stored session snapshot when the           *)
(* restoreSession setting is true and the empty list when it is false; it  *)
(* changes neither the snapshot nor the settings, and updateSettings       *)
(* leaves the snapshot as it is, so that the snapshot saved before the     *)
(* setting was switched off is returned again once it is switched on.      *)
(***************************************************************************)
C35_SessionGet ==
    [][/\ last'.op = "session:get" =>
              /\ ret' = (IF GetSettings.restoreSession THEN GetSession ELSE <<>>)
              /\ GetSession' = GetSession
              /\ GetSettings' = GetSettings
              /\ \A d \in DOMAIN fs : fs'[d] = fs[d]
       /\ last'.op = "updateSettings" => GetSession' = GetSession]_vars

\* the setting is off and a saved snapshot is withheld
C35_Witness ==
    /\ last.op = "session:get"
    /\ ret = <<>>
    /\ ~GetSettings.restoreSession
    /\ Len(GetSession) = 2

(***************************************************************************)
(* The renderer: tabs, navigation and the bookmark button of renderer.ts.  *)
(* A step of the renderer is one turn of its event loop: a listener, or an *)
(* async function resumed by the reply it awaited, runs to its next await. *)
(* What the turn sends goes to `ipc`; the main process handles the         *)
(* messages in steps of its own, one by one in the order in which they     *)
(* were sent, and the reply of an invoke that is awaited waits in          *)
(* `pending` for the turn that resumes the function.                       *)
(***************************************************************************)
MaxTabObjs == 3

MaxPending == 2

MaxVisits == 1

\* `tab-${Date.now()}-${Math.random().toString(36).slice(2, 8)}`
GenerateId(t, r) == <<"tab", t, r>>

TabTimes == {1, 2, 3}

TabSuffixes == {"aaaaaa"}

TabIds == {GenerateId(t, r) : t \in TabTimes, r \in TabSuffixes}

\* the tabs and the ids of the runs in which pages are loaded
MaxNavTabs == 2

NavIds == {GenerateId(t, r) : t \in {1, 2}, r \in TabSuffixes}

\* what the events of a webview report: the title of the page, the url it
\* went to (by a link or a redirect, or in the page by history.pushState)
PageTitles == {"A"}

PageUrls == {"https://a.com/x"}

\* input.trim()
Trim(input) == IF input = " b.org" THEN "b.org" ELSE input

\* /^https?:\/\//i.test(trimmed): of the strings of the runs, the ones that
\* begin with a scheme
HasScheme(trimmed) ==
    trimmed \in {"https://a.com", "https://b.org",
                 "https://duckduckgo.com/?q=two%20words",
                 "https://www.bing.com/search?q=two%20words"} \cup PageUrls

\* /^[a-zA-Z0-9-]+(\.[a-zA-Z]{2,})+/.test(trimmed)
LooksLikeDomain(trimmed) == trimmed \in {"b.org"}

EncodeURIComponent(str) == IF str = "two words" THEN "two%20words" ELSE str

searchUrls ==
    [duckduckgo |-> "https://duckduckgo.com/?q=", bing |-> "https://www.bing.com/search?q="]

\* ipcMain.handle("nav:resolveUrl", ...)
ResolveUrl(input) ==
    LET settings == GetSettings
        trimmed == Trim(input)
    IN  IF HasScheme(trimmed) THEN trimmed
        ELSE IF LooksLikeDomain(trimmed) THEN "https://" \o trimmed
        ELSE searchUrls[settings.searchEngine] \o EncodeURIComponent(trimmed)

\* the renderer's state as one value, with the IPC calls made so far in the
\* turn and, for each of them, the function that awaits its reply
Renderer ==
    [tabs |-> tabs, tabObjs |-> tabObjs, webviews |-> webviews,
     activeTabId |-> activeTabId, urlBar |-> urlBar, bookmarksBar |-> bookmarksBar,
     pending |-> pending,
     sent |-> <<>>, awaited |-> <<>>]

\* ipcRenderer.send(channel, data) / ipcRenderer.invoke(channel, data) as it
\* goes over the wire
Msg(channel, data) == [channel |-> channel, data |-> data]

\* the async function that awaits the reply of an invoke: its name, the Tab
\* object and the isBookmarked value its closure holds
Cont(fn, tab, was) == [fn |-> fn, tab |-> tab, was |-> was]

\* nothing the model follows awaits the reply
NoCont == Cont("", 0, FALSE)

\* a message on its way to the main process, with the function that awaits
\* its reply
Ipc(msg, cont) == [channel |-> msg.channel, data |-> msg.data, cont |-> cont]

\* window.browserAPI.<channel>(data) in a turn of the renderer
Send(s, channel, data, cont) ==
    [s EXCEPT !.sent = Append(@, Msg(channel, data)), !.awaited = Append(@, cont)]

\* const tab: Tab = { id, title: "New Tab", url: url ?? "", webview: null, ... }
NewTab(id, url) == [id |-> id, title |-> "New Tab", url |-> url, webview |-> 0]

\* getActiveTab(): the Tab object, 0 for null
GetActiveTab(s) ==
    IF s.activeTabId = Null THEN 0
    ELSE IF MapHas(s.tabs, s.activeTabId) THEN MapGet(s.tabs, s.activeTabId)
    ELSE 0

\* updateBookmarkButton(url) up to its await; cont is the caller that awaits it
UpdateBookmarkButtonThen(s, url, cont) ==
    IF url = "" THEN s
    ELSE Send(s, "bookmarks:isBookmarked", url, cont)

\* updateBookmarkButton(url) that no caller awaits
UpdateBookmarkButton(s, url) == UpdateBookmarkButtonThen(s, url, NoCont)

\* switchTab(id)
SwitchTab(s, id) ==
    IF ~MapHas(s.tabs, id) THEN s
    ELSE LET tab == s.tabObjs[MapGet(s.tabs, id)]
             shown == [s EXCEPT !.activeTabId = id, !.urlBar = tab.url]
             checked == UpdateBookmarkButton(shown, tab.url)
         IN  IF tab.webview = 0 THEN [checked EXCEPT !.urlBar = ""] ELSE checked

\* navigateTo(input) up to its await
NavigateTo(s, input) ==
    LET tab == GetActiveTab(s)
    IN  IF tab = 0 THEN s
        ELSE Send(s, "nav:resolveUrl", input, Cont("navigateTo", tab, FALSE))

\* createTab(url)
CreateTab(s, id, url) ==
    LET made == [s EXCEPT !.tabObjs = Append(@, NewTab(id, url)),
                          !.tabs = MapSet(@, id, Len(s.tabObjs) + 1)]
        switched == SwitchTab(made, id)
    IN  IF url # "" THEN NavigateTo(switched, url) ELSE switched

\* saveCurrentSession()
SaveCurrentSession(s) ==
    LET all == [i \in 1..Len(s.tabs) |-> s.tabObjs[s.tabs[i].val]]
        withUrl == SelectSeq(all, LAMBDA tab : tab.url # "")
        sessionTabs == [i \in 1..Len(withUrl) |-> Tab(withUrl[i].url, withUrl[i].title)]
    IN  Send(s, "session:save", sessionTabs, NoCont)

FirstKey(m) == m[1].key

\* remaining[remaining.length - 1]
LastKey(m) == m[Len(m)].key

CloseTabLeavesEmpty(s, id, fresh) ==
    IF ~MapHas(s.tabs, id) THEN s
    ELSE LET tab == s.tabObjs[MapGet(s.tabs, id)]
             removed == [s EXCEPT
                            !.webviews = IF tab.webview # 0
                                         THEN [@ EXCEPT ![tab.webview].attached = FALSE]
                                         ELSE @,
                            !.tabs = MapDelete(@, id)]
             closed == IF Len(removed.tabs) > 0 /\ removed.activeTabId = id
                       THEN SwitchTab(removed, LastKey(removed.tabs))
                       ELSE removed
         IN  SaveCurrentSession(closed)

\* closeTab(id); fresh is the id generateId() gives when a tab is created
CloseTab(s, id, fresh) ==
    IF ~MapHas(s.tabs, id) THEN s
    ELSE LET tab == s.tabObjs[MapGet(s.tabs, id)]
             removed == [s EXCEPT
                            !.webviews = IF tab.webview # 0
                                         THEN [@ EXCEPT ![tab.webview].attached = FALSE]
                                         ELSE @,
                            !.tabs = MapDelete(@, id)]
             closed == IF Len(removed.tabs) = 0 THEN CreateTab(removed, fresh, "")
                       ELSE IF removed.activeTabId = id
                       THEN SwitchTab(removed, LastKey(removed.tabs))
                       ELSE removed
         IN  SaveCurrentSession(closed)

\* navigateTo after `await window.browserAPI.resolveUrl(input)`
NavigateToResumed(s, tab, url) ==
    LET set == [s EXCEPT !.tabObjs[tab].url = url]
        loaded ==
            IF s.tabObjs[tab].webview = 0
            THEN [set EXCEPT
                     !.webviews = Append(@, [tabId |-> s.tabObjs[tab].id, src |-> url,
                                             attached |-> TRUE]),
                     !.tabObjs[tab].webview = Len(s.webviews) + 1]
            ELSE [set EXCEPT !.webviews[s.tabObjs[tab].webview].src = url]
    IN  UpdateBookmarkButton([loaded EXCEPT !.urlBar = url], url)

\* updateTabTitle(id, title)
UpdateTabTitle(s, id, title) ==
    IF ~MapHas(s.tabs, id) THEN s
    ELSE [s EXCEPT !.tabObjs[MapGet(s.tabs, id)].title = title]

\* the page-title-updated listener of the webview w
PageTitleUpdated(s, w, title) ==
    LET tabId == s.webviews[w].tabId
        titled == UpdateTabTitle(s, tabId, title)
    IN  IF ~MapHas(titled.tabs, tabId) THEN titled
        ELSE LET tab == titled.tabObjs[MapGet(titled.tabs, tabId)]
             IN  SaveCurrentSession(
                     Send(titled, "history:add", <<tab.url, title>>, NoCont))

\* the did-navigate-in-page listener of the webview w
DidNavigateInPage(s, w, url) ==
    LET tabId == s.webviews[w].tabId
    IN  IF ~MapHas(s.tabs, tabId) THEN s
        ELSE IF s.tabObjs[MapGet(s.tabs, tabId)].webview = 0 THEN s
        ELSE LET set == [s EXCEPT !.tabObjs[MapGet(s.tabs, tabId)].url = url]
             IN  IF tabId = s.activeTabId THEN [set EXCEPT !.urlBar = url] ELSE set

\* the did-navigate listener of the webview w
DidNavigate(s, w, url) ==
    LET tabId == s.webviews[w].tabId
        set == DidNavigateInPage(s, w, url)
    IN  IF /\ MapHas(s.tabs, tabId)
           /\ s.tabObjs[MapGet(s.tabs, tabId)].webview # 0
           /\ tabId = s.activeTabId
        THEN UpdateBookmarkButton(set, url)
        ELSE set

\* the click listener of #btn-close
ClickClose(s) ==
    LET saved == SaveCurrentSession(s)
    IN  Send(saved, "window:close", <<>>, NoCont)

\* the value the listener of the main process returns for a message
Reply(m) ==
    CASE m.channel = "nav:resolveUrl" -> ResolveUrl(m.data)
      [] m.channel = "bookmarks:isBookmarked" -> HasUrl(GetBookmarks, m.data)
      [] m.channel = "bookmarks:getAll" -> GetBookmarks
      [] m.channel = "session:get" ->
             IF ~GetSettings.restoreSession THEN <<>> ELSE GetSession
      [] m.channel = "bookmarks:add" ->
             IF HasUrl(GetBookmarks, m.data[1]) THEN GetBookmarks
             ELSE Append(GetBookmarks, [url |-> m.data[1], title |-> m.data[2],
                                        addedAt |-> T0])
      [] m.channel = "bookmarks:remove" ->
             SelectSeq(GetBookmarks, LAMBDA b : b.url # m.data[1])
      [] OTHER -> <<>>

\* the profile directories after the listener of the main process has run
Handled(m) ==
    CASE m.channel = "session:save" -> WriteProfileDoc("session", m.data)
      [] m.channel = "history:add" ->
             WriteProfileDoc("history",
                 UnshiftHistory(GetHistory, [url |-> m.data[1], title |-> m.data[2],
                                             visitedAt |-> T0]))
      [] m.channel = "bookmarks:add" ->
             IF HasUrl(GetBookmarks, m.data[1]) THEN Touched
             ELSE WriteProfileDoc("bookmarks", Reply(m))
      [] m.channel = "bookmarks:remove" -> WriteProfileDoc("bookmarks", Reply(m))
      [] m.channel = "window:close" -> fs
      [] OTHER -> Touched

\* the main process handles the message that was sent first; the reply of
\* an invoke that is awaited goes back to the renderer
MainHandles ==
    /\ ipc # <<>>
    /\ LET m == Head(ipc)
       IN  /\ fs' = Handled(m)
           /\ ipc' = Tail(ipc)
           /\ pending' = IF m.cont = NoCont THEN pending
                         ELSE Append(pending, [fn |-> m.cont.fn, tab |-> m.cont.tab,
                                               was |-> m.cont.was, reply |-> Reply(m)])
           /\ ret' = Reply(m)
           /\ last' = Call(m.channel, <<m.data, m.cont.fn>>)
    /\ UNCHANGED <<globalFiles, activeProfileId, inflight, mainVars,
                   tabs, tabObjs, webviews, activeTabId, urlBar, bookmarksBar>>

\* the calls of a turn on their way to the main process
Wire(s) == [i \in 1..Len(s.sent) |-> Ipc(s.sent[i], s.awaited[i])]

\* a turn of the renderer: its new state and the calls it made, which wait
\* for the main process
Step(s, op, args) ==
    /\ mainWindow # Null
    /\ tabs' = s.tabs
    /\ tabObjs' = s.tabObjs
    /\ webviews' = s.webviews
    /\ activeTabId' = s.activeTabId
    /\ urlBar' = s.urlBar
    /\ bookmarksBar' = s.bookmarksBar
    /\ pending' = s.pending
    /\ ipc' = ipc \o Wire(s)
    /\ ret' = s.sent
    /\ last' = Call(op, args)
    /\ UNCHANGED <<globalFiles, fs, activeProfileId, inflight, mainVars>>

\* messages and replies that wait
Backlog == Len(ipc) + Len(pending)

\* history entries written and on their way
Visits ==
    Len(GetHistory) + Len(SelectSeq(ipc, LAMBDA m : m.channel = "history:add"))

Room == Len(tabObjs) < MaxTabObjs /\ Backlog < MaxPending

\* the click listener of #btn-new-tab: createTab()
DoCreateTab(id) ==
    /\ Room
    /\ Step(CreateTab(Renderer, id, ""), "createTab", <<id>>)

DoSwitchTab(id) ==
    /\ Backlog < MaxPending
    /\ Step(SwitchTab(Renderer, id), "switchTab", <<id>>)

DoCloseTab(id, fresh) ==
    /\ Backlog < MaxPending
    /\ (Len(tabs) = 1 /\ MapHas(tabs, id)) => Len(tabObjs) < MaxTabObjs
    /\ Step(CloseTab(Renderer, id, fresh), "closeTab", <<id>>)

\* the keydown listener of the search box of the new-tab page, on Enter with
\* `typed` in the box: the URL bar is not touched
DoNtpSearch(typed) ==
    LET value == Trim(typed)
    IN  /\ Backlog < MaxPending
        /\ Step(IF value # "" THEN NavigateTo(Renderer, value) ELSE Renderer,
                "ntp-search", <<typed>>)

\* the keydown listener of the URL bar, on Enter with `typed` in the bar
DoNavigateTo(typed) ==
    LET value == Trim(typed)
        s == [Renderer EXCEPT !.urlBar = typed]
    IN  /\ Backlog < MaxPending
        /\ Step(IF value # "" THEN NavigateTo(s, value) ELSE s,
                "navigateTo", <<typed>>)

\* the reply of nav:resolveUrl arrives
ResumeNavigateTo ==
    /\ pending # <<>>
    /\ Head(pending).fn = "navigateTo"
    /\ Step(NavigateToResumed([Renderer EXCEPT !.pending = Tail(@)],
                              Head(pending).tab, Head(pending).reply),
            "navigateTo resumed", <<Head(pending).tab>>)

\* the webviews in the webview container
Attached == {w \in 1..Len(webviews) : webviews[w].attached}

\* the page of a webview sets its title
DoPageTitleUpdated(w, title) ==
    /\ w \in Attached
    /\ Backlog < MaxPending
    /\ Visits < MaxVisits
    /\ Step(PageTitleUpdated(Renderer, w, title), "page-title-updated", <<w, title>>)

\* a webview has gone to another page
DoDidNavigate(w, url) ==
    /\ w \in Attached
    /\ Backlog < MaxPending
    /\ Step(DidNavigate(Renderer, w, url), "did-navigate", <<w, url>>)

\* a webview has changed the fragment of its url
DoDidNavigateInPage(w, url) ==
    /\ w \in Attached
    /\ Step(DidNavigateInPage(Renderer, w, url), "did-navigate-in-page", <<w, url>>)

\* the new-window listener of the webview w: createTab(e.url)
DoNewWindow(w, url, id) ==
    /\ w \in Attached
    /\ Len(tabObjs) < MaxNavTabs
    /\ Backlog < MaxPending
    /\ Step(CreateTab(Renderer, id, url), "new-window", <<w, url, id>>)

DoClickClose ==
    /\ Backlog < MaxPending
    /\ Step(ClickClose(Renderer), "btn-close", <<>>)

\* what the webviews of the renderer report
WebviewEvents ==
    \/ \E w \in 1..MaxTabObjs, title \in PageTitles : DoPageTitleUpdated(w, title)
    \/ \E w \in 1..MaxTabObjs, url \in PageUrls : DoDidNavigate(w, url)
    \/ \E w \in 1..MaxTabObjs, url \in PageUrls : DoDidNavigateInPage(w, url)
    \/ \E w \in 1..MaxTabObjs, url \in PageUrls, id \in NavIds : DoNewWindow(w, url, id)

\* the tab strip of blank tabs (no tab is given a url, so no webview is
\* made): clicks on the new-tab button, on a tab and on its close button, and
\* on the close button of the window
NextTabs ==
    \/ \E id \in TabIds : DoCreateTab(id)
    \/ \E id \in TabIds : DoSwitchTab(id)
    \/ \E id \in TabIds, fresh \in TabIds : DoCloseTab(id, fresh)
    \/ MainHandles
    \/ DoClickClose
    \/ WindowClosed

SpecTabs == InitApp /\ [][NextTabs]_vars

(***************************************************************************)
(* C36: Once createTab has run, the tab map is never empty and activeTabId *)
(* is a key of the map, in every state createTab, switchTab and closeTab   *)
(* lead to; closing the only tab leaves exactly one tab, a new blank one   *)
(* (title "New Tab", no url, no webview), and that tab is the active one.  *)
(***************************************************************************)
C36_TabStrip ==
    [][/\ last'.op = "createTab" => Len(tabs') > 0 /\ MapHas(tabs', activeTabId')
       /\ Len(tabs) > 0 => Len(tabs') > 0 /\ MapHas(tabs', activeTabId')
       /\ (/\ last'.op = "closeTab"
           /\ Len(tabs) = 1
           /\ tabs[1].key = last'.args[1])
              => /\ Len(tabs') = 1
                 /\ tabs'[1].val = Len(tabObjs) + 1
                 /\ tabObjs'[tabs'[1].val] = NewTab(tabs'[1].key, "")
                 /\ activeTabId' = tabs'[1].key
                 /\ urlBar' = ""]_vars

\* the only tab was closed and the tab made in its place got the id it had
C36_Witness ==
    /\ last.op = "closeTab"
    /\ Len(tabs) = 1 /\ tabs[1].key = last.args[1]
    /\ Len(tabObjs) = 2 /\ tabs[1].val = 2
    /\ tabObjs[1].id = tabObjs[2].id
    /\ activeTabId = tabs[1].key
    /\ ret = <<Msg("session:save", <<>>)>>

(***************************************************************************)
(* C37: closeTab(id) of the active tab, with other tabs left, makes the    *)
(* tab that is last in the insertion order of the tab map active;          *)
(* closeTab of another tab leaves activeTabId as it is; in both cases the  *)
(* tab leaves the map and the session is saved.  closeTab of an id that is *)
(* not in the map changes nothing and sends no session:save.               *)
(***************************************************************************)
C37_CloseTab ==
    [][last'.op = "closeTab" =>
          IF ~MapHas(tabs, last'.args[1])
          THEN /\ UNCHANGED <<rendererVars, fs>>
               /\ ret' = <<>>
          ELSE /\ ret'[Len(ret')].channel = "session:save"
               /\ Len(tabs) > 1 =>
                      /\ tabs' = MapDelete(tabs, last'.args[1])
                      /\ activeTabId' =
                             (IF activeTabId = last'.args[1]
                              THEN tabs'[Len(tabs')].key
                              ELSE activeTabId)]_vars

\* the active one of three tabs was closed while the session:save of an
\* earlier closeTab still waits: the last of the two tabs left is active
C37_Witness ==
    /\ last.op = "closeTab"
    /\ ret = <<Msg("session:save", <<>>)>>
    /\ Len(ipc) = 2
    /\ Len(tabs) = 2 /\ Len(tabObjs) = 3
    /\ \A i \in 1..2 : tabs[i].key # last.args[1]
    /\ activeTabId = tabs[2].key

(***************************************************************************)
(* Navigation from the URL bar while tabs are opened, switched and closed. *)
(***************************************************************************)
\* what is typed into the URL bar before Enter
NavInputs == {" b.org"}

NextNavigate ==
    \/ \E id \in NavIds : Len(tabObjs) < MaxNavTabs /\ DoCreateTab(id)
    \/ \E typed \in NavInputs : DoNavigateTo(typed)
    \/ \E typed \in NavInputs : DoNtpSearch(typed)
    \/ ResumeNavigateTo
    \/ \E id \in NavIds : DoSwitchTab(id)
    \/ \E id \in NavIds, fresh \in NavIds : DoCloseTab(id, fresh)
    \/ MainHandles
    \/ WebviewEvents

SpecNavigate == InitApp /\ [][NextNavigate]_vars

(***************************************************************************)
(* C38: Every webview in the webview container carries the id of a tab of  *)
(* the tab map, and when navigateTo has finished after its await the URL   *)
(* bar shows the url of the active tab, however closeTab and switchTab are *)
(* interleaved with the navigation.                                        *)
(***************************************************************************)
C38_WebviewsBelongToTabs ==
    /\ [](\A w \in Attached : MapHas(tabs, webviews[w].tabId))
    /\ [][last'.op = "navigateTo resumed" =>
              /\ GetActiveTab(Renderer)' # 0
              /\ urlBar' = tabObjs'[GetActiveTab(Renderer)'].url]_vars

(***************************************************************************)
(* The bookmark button.  toggleBookmark awaits isBookmarked, then add or   *)
(* remove, then updateBookmarkButton, then renderBookmarksBar: four turns  *)
(* of the renderer after the click, each started by a reply.               *)
(***************************************************************************)
\* the items renderBookmarksBar() makes for the bookmarks it was given, each
\* with the url its click listener navigates to
BarItems(bookmarks) == [i \in 1..Len(bookmarks) |-> bookmarks[i].url]

\* toggleBookmark() up to its first await
ToggleBookmark(s) ==
    LET tab == GetActiveTab(s)
    IN  IF tab = 0 THEN s
        ELSE IF s.tabObjs[tab].url = "" THEN s
        ELSE Send(s, "bookmarks:isBookmarked", s.tabObjs[tab].url,
                  Cont("toggleBookmark", tab, FALSE))

\* renderBookmarksBar() up to its await, called by toggleBookmark
RenderBookmarksBar(s, tab, was) ==
    Send(s, "bookmarks:getAll", <<>>, Cont("renderBookmarksBar", tab, was))

\* after `await window.browserAPI.bookmarks.isBookmarked(tab.url)`
ToggleBookmarkResumed(s, tab, isBookmarked) ==
    LET url == s.tabObjs[tab].url
        cont == Cont("toggleBookmark written", tab, isBookmarked)
    IN  IF isBookmarked THEN Send(s, "bookmarks:remove", <<url>>, cont)
        ELSE Send(s, "bookmarks:add", <<url, s.tabObjs[tab].title>>, cont)

\* after the await of remove or add: updateBookmarkButton(tab.url) up to its
\* await; without a url it returns at once and renderBookmarksBar is called
ToggleBookmarkWritten(s, tab, was) ==
    IF s.tabObjs[tab].url = "" THEN RenderBookmarksBar(s, tab, was)
    ELSE UpdateBookmarkButtonThen(s, s.tabObjs[tab].url,
                                  Cont("updateBookmarkButton", tab, was))

DoToggleBookmark ==
    /\ Backlog < MaxPending
    /\ Step(ToggleBookmark(Renderer), "toggleBookmark", <<>>)

\* the reply of bookmarks:isBookmarked arrives
ResumeToggleBookmark ==
    /\ pending # <<>>
    /\ Head(pending).fn = "toggleBookmark"
    /\ Step(ToggleBookmarkResumed([Renderer EXCEPT !.pending = Tail(@)],
                                  Head(pending).tab, Head(pending).reply),
            "toggleBookmark resumed",
            <<Head(pending).tab, tabObjs[Head(pending).tab].url>>)

\* the reply of bookmarks:add or bookmarks:remove arrives
ResumeToggleBookmarkWritten ==
    /\ pending # <<>>
    /\ Head(pending).fn = "toggleBookmark written"
    /\ Step(ToggleBookmarkWritten([Renderer EXCEPT !.pending = Tail(@)],
                                  Head(pending).tab, Head(pending).was),
            "toggleBookmark written",
            <<Head(pending).tab, tabObjs[Head(pending).tab].url, Head(pending).was>>)

\* the reply of the bookmarks:isBookmarked of updateBookmarkButton arrives:
\* the button is set and toggleBookmark goes on to renderBookmarksBar
ResumeUpdateBookmarkButton ==
    /\ pending # <<>>
    /\ Head(pending).fn = "updateBookmarkButton"
    /\ Step(RenderBookmarksBar([Renderer EXCEPT !.pending = Tail(@)],
                               Head(pending).tab, Head(pending).was),
            "toggleBookmark checked",
            <<Head(pending).tab, tabObjs[Head(pending).tab].url, Head(pending).was>>)

\* the reply of bookmarks:getAll arrives: the bar is drawn and toggleBookmark
\* returns
FinishToggleBookmark ==
    /\ pending # <<>>
    /\ Head(pending).fn = "renderBookmarksBar"
    /\ Step([Renderer EXCEPT !.pending = Tail(@),
                             !.bookmarksBar = BarItems(Head(pending).reply)],
            "toggleBookmark done",
            <<Head(pending).tab, tabObjs[Head(pending).tab].url, Head(pending).was>>)

\* the click listener of the i-th item of the bookmarks bar
DoBookmarkClick(i) ==
    /\ i \in 1..Len(bookmarksBar)
    /\ Backlog < MaxPending
    /\ Step(NavigateTo(Renderer, bookmarksBar[i]), "bookmark-item", <<i>>)

\* words typed into the URL bar, which make a search
SearchInputs == {"two words"}

\* a tab is clicked and the pages report while fewer than MaxBusy messages
\* and replies wait
MaxBusy == 1

\* the bookmark button, with the new-tab button, the URL bar, the bookmarks
\* bar, the tabs and the pages that give the tabs their urls
NextToggle ==
    \/ \E id \in NavIds : Len(tabObjs) < MaxNavTabs /\ DoCreateTab(id)
    \/ \E typed \in SearchInputs : DoNavigateTo(typed)
    \/ \E typed \in SearchInputs : DoNtpSearch(typed)
    \/ \E i \in 1..MaxNavTabs : DoBookmarkClick(i)
    \/ ResumeNavigateTo
    \/ \E id \in NavIds : Backlog < MaxBusy /\ DoSwitchTab(id)
    \/ DoToggleBookmark
    \/ ResumeToggleBookmark
    \/ ResumeToggleBookmarkWritten
    \/ ResumeUpdateBookmarkButton
    \/ FinishToggleBookmark
    \/ MainHandles
    \/ Backlog < MaxBusy /\ WebviewEvents

SpecToggle == InitApp /\ [][NextToggle]_vars

(***************************************************************************)
(* C39: toggleBookmark flips the bookmark membership of the active tab's   *)
(* url: the add or remove it makes changes whether the url is bookmarked,  *)
(* and when the call ends the url is bookmarked exactly when isBookmarked  *)
(* found it not bookmarked at the start of the call, also when a second    *)
(* call is started before the first has finished.                          *)
(***************************************************************************)
C39_ToggleFlips ==
    [][/\ last'.op \in {"bookmarks:add", "bookmarks:remove"} =>
              HasUrl(GetBookmarks', last'.args[1][1])
                  # HasUrl(GetBookmarks, last'.args[1][1])
       /\ last'.op = "toggleBookmark done" =>
              HasUrl(GetBookmarks', last'.args[2]) = ~last'.args[3]]_vars

(***************************************************************************)
(* Start-up of the renderer: the script calls init(), which awaits         *)
(* renderBookmarksBar() and then restoreSession(); the tabs of the stored  *)
(* session, or one blank tab, are created in the turn in which the reply   *)
(* of session:get arrives.                                                 *)
(***************************************************************************)
\* the session a run before this one has left on disk
StartSessions ==
    {<<>>,
     <<Tab("https://b.org", "A")>>,
     <<Tab("https://b.org", "A"), Tab("https://a.com/x", "New Tab")>>}

StartSettings == {NoFiles, [restoreSession |-> FALSE]}

InitStartup ==
    /\ globalFiles = NoFiles
    /\ \/ fs = [d \in {DefaultId} |-> NoFiles]
       \/ \E sessionTabs \in StartSessions, doc \in StartSettings :
              fs = [d \in {DefaultId} |->
                       [n \in {"session", "settings"} |->
                           IF n = "session" THEN Stringify(sessionTabs)
                           ELSE Stringify(doc)]]
    /\ activeProfileId = DefaultId
    /\ inflight = NoCalls
    /\ InitMain
    /\ InitRenderer
    /\ last = Call("start", <<>>)
    /\ ret = <<>>

\* for (const st of sessionTabs) createTab(st.url); ids are the ids
\* generateId() gives, one for each tab
RECURSIVE CreateTabs(_, _, _)
CreateTabs(s, ids, sessionTabs) ==
    IF sessionTabs = <<>> THEN s
    ELSE CreateTabs(CreateTab(s, Head(ids), Head(sessionTabs).url),
                    Tail(ids), Tail(sessionTabs))

\* restoreSession() after `await window.browserAPI.session.get()`
RestoreSessionResumed(s, ids, sessionTabs) ==
    IF Len(sessionTabs) > 0 THEN CreateTabs(s, ids, sessionTabs)
    ELSE CreateTab(s, Head(ids), "")

\* the script of the renderer runs: init() up to its first await, in
\* renderBookmarksBar()
DoInit ==
    /\ last.op = "start"
    /\ Step(Send(Renderer, "bookmarks:getAll", <<>>, Cont("init", 0, FALSE)),
            "init", <<>>)

\* the reply of bookmarks:getAll arrives: init() after
\* `await renderBookmarksBar()`, restoreSession() up to its await
ResumeInit ==
    /\ pending # <<>>
    /\ Head(pending).fn = "init"
    /\ Step(Send([Renderer EXCEPT !.pending = Tail(@),
                                  !.bookmarksBar = BarItems(Head(pending).reply)],
                 "session:get", <<>>,
                 Cont("restoreSession", 0, FALSE)),
            "init resumed", <<>>)

\* the reply of session:get arrives; the values of Date.now() in the ids of
\* one turn do not go back
ResumeRestoreSession ==
    /\ pending # <<>>
    /\ Head(pending).fn = "restoreSession"
    /\ \E ids \in [1..(IF Len(Head(pending).reply) > 0
                        THEN Len(Head(pending).reply) ELSE 1) -> NavIds] :
           /\ \A i \in 1..(Len(ids) - 1) : ids[i][2] <= ids[i + 1][2]
           /\ Step(RestoreSessionResumed([Renderer EXCEPT !.pending = Tail(@)],
                                         ids, Head(pending).reply),
                   "restoreSession resumed", <<ids, Head(pending).reply>>)

NextStartup ==
    \/ DoInit
    \/ ResumeInit
    \/ ResumeRestoreSession
    \/ ResumeNavigateTo
    \/ MainHandles
    \/ WebviewEvents

SpecStartup == InitStartup /\ [][NextStartup]_vars

====
